---- MODULE Spec2Model ----
(***************************************************************************)
(* A model of the gusto dynamical core: the physics parametrisations       *)
(* (gusto/physics.py), the forcing operators (gusto/forcing.py) and the    *)
(* field and space registry of the State (gusto/state.py).                 *)
(*                                                                         *)
(* Fields are modelled at one degree of freedom.  Real numbers are exact   *)
(* rationals [n, d] in lowest terms with d > 0, so that the clipping of a  *)
(* rate against reservoir/dt is computed as the code computes it.          *)
(***************************************************************************)
EXTENDS Integers, Sequences, FiniteSets, TLC

(***************************************************************************)
(* Exact rational arithmetic.                                              *)
(***************************************************************************)
Abs(i) == IF i < 0 THEN -i ELSE i

RECURSIVE GCD(_, _)
GCD(a, b) == IF b = 0 THEN a ELSE GCD(b, a % b)

Rat(n, d) ==
    LET g == GCD(Abs(n), Abs(d))
        s == IF d < 0 THEN -1 ELSE 1
    IN  [n |-> s * (n \div g), d |-> s * (d \div g)]

RZero == Rat(0, 1)
ROne == Rat(1, 1)
RNeg(a) == [n |-> -a.n, d |-> a.d]
RAdd(a, b) ==
    LET g == GCD(a.d, b.d)
    IN  Rat(a.n * (b.d \div g) + b.n * (a.d \div g), (a.d \div g) * b.d)
RSub(a, b) == RAdd(a, RNeg(b))
RMul(a, b) ==
    LET g1 == GCD(Abs(a.n), b.d)
        g2 == GCD(Abs(b.n), a.d)
    IN  Rat((a.n \div g1) * (b.n \div g2), (a.d \div g2) * (b.d \div g1))
RInv(a) == Rat(a.d, a.n)
RDiv(a, b) == RMul(a, RInv(b))
RLt(a, b) ==
    LET g == GCD(a.d, b.d)
    IN  a.n * (b.d \div g) < b.n * (a.d \div g)
RLe(a, b) == ~RLt(b, a)
RGe(a, b) == ~RLt(a, b)
min_value(a, b) == IF RLt(b, a) THEN b ELSE a
max_value(a, b) == IF RLt(a, b) THEN b ELSE a

(***************************************************************************)
(* Bounds of the model.                                                    *)
(***************************************************************************)
\* number of physics apply() calls explored
MaxPhysicsApply == 3
\* physics apply() is explored from fields whose numerator and denominator
\* are within these limits
MaxNumerator == 40
MaxDenominator == 8000
\* number of forcing apply() calls explored
MaxForcingApply == 2
\* largest magnitude of a mixed-state component from which apply is explored
MaxComponent == 6
\* number of Function objects the field registry may hold
MaxFunctions == 5
\* number of registry calls explored
MaxStateCalls == 3
\* number of calls made on a constructed State while its output is explored
MaxDumpCalls == 5
\* number of transport form constructions and uses explored
MaxTransportCalls == 2
\* largest outer iteration count K and longest run (in timesteps) explored
MaxOuterIterations == 3
MaxTimesteps == 2

VARIABLES
    \* ---- physics (gusto/physics.py) ----
    dt,                 \* state.timestepping.dt, fixed at construction
    weak,               \* Condensation.weak
    theta, water_v, water_c, rain,   \* the prognostic fields
    dot_r_cond,         \* Condensation: Function solved for when weak
    cond_rate,          \* Condensation.cond_rate
    coalescence_rate,   \* Coalescence.coalescence_rate
    collection_rate,    \* Collection.collection_rate
    autoconversion_rate,\* Autoconversion.autoconversion_rate
    pcall,              \* the last physics call: process, fields before it, raw rate,
                        \* and what each statement of Condensation.apply read
    nphys,              \* number of physics calls made
    \* ---- forcing (gusto/forcing.py) ----
    fconf,              \* the forcing variant and what it reads from the state
    xs,                 \* the mixed-state Functions, by name; components by position
    x0,                 \* Forcing.x0, the copy of the linearisation state
    scaling,            \* Forcing.scaling
    mu_scaling,         \* Forcing.mu_scaling; <<>> while the attribute does not exist
    uF,                 \* Forcing.uF, the solved velocity forcing
    divu,               \* IncompressibleForcing.divu
    ndivsolve,          \* number of divergence_solver.solve() runs
    fcall,              \* the last forcing call: arguments, state before it, outcome
    nforce,             \* number of forcing calls made
    \* ---- field and space registry (gusto/state.py) ----
    fieldlist,          \* State.fieldlist
    funcs,              \* the Function objects created; a Function is its index
    fattr,              \* FieldCreator: attribute name -> Function
    flist,              \* FieldCreator.fields
    sattr,              \* SpaceCreator: attribute name -> function space
    scall,              \* the last registry call: arguments, registry before it, outcome
    nstate,             \* number of registry calls made
    \* ---- State construction and dump I/O (gusto/state.py) ----
    sbuilt,             \* "unbuilt", "built", or the error State.__init__ raised
    allocated,          \* whether _allocate_state has made the mixed-state vectors
    output,             \* State.output; <<>> while the attribute does not exist
    rank,               \* mesh.comm.rank
    dumpdir_exists,     \* disk: whether the results directory exists
    dumpcount,          \* State.dumpcount: the next value of the counter
    dumpfile,           \* State.dumpfile: the number of writes made through it
    diagnostic_data,    \* State.diagnostic_data: per field and function, the samples
    diagnostics_json,   \* disk: diagnostics.json, the samples it holds
    to_dump,            \* State.to_dump
    to_pickup,          \* State.to_pickup
    chkpt,              \* disk: the checkpoint file
    chkptbk,            \* disk: the backup checkpoint file
    dcall,              \* the last setup_dump/dump call: arguments, state before, outcome
    nplain,             \* dump(pickup=False) calls since the last setup_dump
    npick,              \* dump(pickup=True) calls since the last setup_dump
    lastwrite,          \* the fields and the time at the last writing dump, while
                        \* nothing but the values of the fields has changed since
    ndump,              \* number of setup_dump and dump calls made
    \* ---- transport forms (gusto/transport_equation.py) ----
    tform,              \* the form the last successful constructor returned
    tcall,              \* the last constructor call: function, arguments, outcome
    tapply,             \* the outcome of the last use of the form held
    ntrans,             \* number of transport calls made
    \* ---- semi-implicit timestepper (specification, section 4.3) ----
    maxk,               \* K, the outer iteration count of the run
    physics_list,       \* the configured physics processes, in order
    tmax,               \* the number of timesteps to the end of the run
    stage,              \* the stage the timestep is in
    kiter,              \* the outer iteration in progress
    substage,           \* the position inside the outer iteration
    pnext,              \* the position in physics_list of the next process
    nsteps,             \* timesteps completed
    fver,               \* per field, the number of times it has been written
    slog,               \* the events of the timestep in progress, in order
    plast,              \* the last physics application: process, fver before it
    t0,                 \* the time the run starts at
    deltat,             \* the timestep dt of the run
    tnow,               \* the simulation time
    bufs,               \* the MixedState buffers xn, xstar, xp, xnp1, xrhs, dy
    hidden,             \* what the operators keep between calls
    saved,              \* the buffers as they were when the run started
    first_xnp1,         \* xnp1 at the end of the first run, once run again
    table               \* the expressions the buffers hold, each kept once

physVars == <<dt, weak, theta, water_v, water_c, rain, dot_r_cond, cond_rate,
              coalescence_rate, collection_rate, autoconversion_rate, pcall,
              nphys>>

forcVars == <<fconf, xs, x0, scaling, mu_scaling, uF, divu, ndivsolve, fcall,
              nforce>>

regVars == <<fieldlist, funcs, fattr, flist, sattr, scall, nstate>>

dumpVars == <<sbuilt, allocated, output, rank, dumpdir_exists, dumpcount,
              dumpfile, diagnostic_data, diagnostics_json, to_dump, to_pickup,
              chkpt, chkptbk, dcall, nplain, npick, lastwrite, ndump>>

transVars == <<tform, tcall, tapply, ntrans>>

stepVars == <<maxk, physics_list, tmax, stage, kiter, substage, pnext, nsteps,
              fver, slog, plast, t0, deltat, tnow, bufs, hidden, saved,
              first_xnp1, table>>

NotPhysics == <<forcVars, regVars, dumpVars, transVars, stepVars>>
NotForcing == <<physVars, regVars, dumpVars, transVars, stepVars>>
NotRegistry == <<physVars, forcVars, dumpVars, transVars, stepVars>>
NotState == <<physVars, forcVars, transVars, stepVars>>
NotTransport == <<physVars, forcVars, regVars, dumpVars, stepVars>>
NotStepper == <<physVars, forcVars, regVars, dumpVars, transVars>>

vars == <<physVars, forcVars, regVars, dumpVars, transVars, stepVars>>

(***************************************************************************)
(* gusto/physics.py                                                        *)
(***************************************************************************)
\* constants of Coalescence, Collection and Autoconversion
k1 == Rat(1, 1000)
k2 == Rat(22, 10)
a == Rat(1, 1000)

\* rain ** 0.875 is irrational in general.  It is exact at 0 and 1; elsewhere
\* it lies between rain and 1, and the model draws it from values bracketing it.
Pow0875(x) ==
    IF x = RZero \/ x = ROne THEN {x}
    ELSE {x, RDiv(RAdd(x, ROne), Rat(2, 1)), ROne}

\* a condensation rate clipped against the wrong reservoirs
lim_cond_rate_swapped(rate, wv, wc, tstep) ==
    IF RLt(rate, RZero)
    THEN max_value(rate, RNeg(RDiv(wv, tstep)))
    ELSE min_value(rate, RDiv(wc, tstep))

\* Condensation: conditional(dot_r_cond < 0, max_value(dot_r_cond, -water_c/dt),
\*                           min_value(dot_r_cond, water_v/dt))
lim_cond_rate(rate, wv, wc, tstep) ==
    IF RLt(rate, RZero)
    THEN max_value(rate, RNeg(RDiv(wc, tstep)))
    ELSE min_value(rate, RDiv(wv, tstep))

\* water_c updated with a rate other than the one water_v is updated with
water_c_new_other_rate(wc, rate, tstep) ==
    RAdd(wc, RMul(tstep, RMul(rate, Rat(1, 2))))

water_v_new(wv, rate, tstep) == RSub(wv, RMul(tstep, rate))
water_c_new(wc, rate, tstep) == RAdd(wc, RMul(tstep, rate))
\* theta * (1 + dt * cond_rate * (latent heating coefficient)); the coefficient
\* comes from the thermodynamics module and is an input here
theta_new(th, rate, heat, tstep) ==
    RMul(th, RAdd(ROne, RMul(RMul(tstep, rate), heat)))

\* Coalescence
collection(wc, p) == RMul(RMul(k2, wc), p)
autoconversion(wc) == RMul(k1, RSub(wc, a))

\* conditional(collection + autoconversion < 0, 0,
\*             min_value(collection + autoconversion, water_c/dt))
lim_coalescence_rate(rate, wc, tstep) ==
    IF RLt(rate, RZero) THEN RZero ELSE min_value(rate, RDiv(wc, tstep))

\* Collection.limit_rate: conditional(collection_rate > 0,
\*                                    min_value(collection_rate, water_c/dt), 0)
Collection_limit_rate(rate, wc, tstep) ==
    IF RLt(RZero, rate) THEN min_value(rate, RDiv(wc, tstep)) ELSE RZero

\* an autoconversion rate whose negative branch is not clamped against rain
Autoconversion_limit_rate_unclamped(rate, wc, rn, tstep) ==
    IF RLt(RZero, RMul(tstep, rate))
    THEN min_value(rate, RDiv(wc, tstep))
    ELSE rate

\* Autoconversion.limit_rate: conditional(dt*rate > 0, min_value(rate, water_c/dt),
\*                                        max_value(rate, -rain/dt))
Autoconversion_limit_rate(rate, wc, rn, tstep) ==
    IF RLt(RZero, RMul(tstep, rate))
    THEN min_value(rate, RDiv(wc, tstep))
    ELSE max_value(rate, RNeg(RDiv(rn, tstep)))

\* water_c - dt * rate and rain + dt * rate (Interpolator / Projector targets)
water_c_minus(wc, rate, tstep) == RSub(wc, RMul(tstep, rate))
rain_plus(rn, rate, tstep) == RAdd(rn, RMul(tstep, rate))

Units == Rat(1, 1000)
DtSet == {Rat(500, 1), Rat(1000, 1), Rat(2000, 1)}
InitWater == {RZero, Rat(1, 1000), Rat(2, 1000)}
InitRain == {RZero, Rat(1, 1000), ROne}
\* raw condensation rates: dt * rate is -2 .. 2 thousandths
RawCondRates(tstep) == {RDiv(RMul(Rat(m, 1), Units), tstep) : m \in -2..2}
HeatCoeffs == {RZero, Rat(500, 1)}

InWindow(x) == Abs(x.n) <= MaxNumerator /\ x.d <= MaxDenominator
PhysicsEnabled ==
    /\ nphys < MaxPhysicsApply
    /\ InWindow(water_v) /\ InWindow(water_c)
    /\ (InWindow(rain) \/ rain = ROne)

Before(op, raw) == [op |-> op, water_v |-> water_v, water_c |-> water_c,
                    rain |-> rain, theta |-> theta, raw |-> raw,
                    reads |-> << >>]

PhysicsInitOf(tstep, wk, wv, wc, rn) ==
    /\ dt = tstep
    /\ weak = wk
    /\ theta = Rat(300, 1)
    /\ water_v = wv
    /\ water_c = wc
    /\ rain = rn
    /\ dot_r_cond = RZero
    /\ cond_rate = RZero
    /\ coalescence_rate = RZero
    /\ collection_rate = RZero
    /\ autoconversion_rate = RZero
    /\ pcall = [op |-> "none", water_v |-> water_v, water_c |-> water_c,
                rain |-> rain, theta |-> theta, raw |-> RZero,
                reads |-> << >>]
    /\ nphys = 0

PhysicsInit ==
    \E tstep \in DtSet, wk \in BOOLEAN, wv \in InitWater, wc \in InitWater,
       rn \in InitRain : PhysicsInitOf(tstep, wk, wv, wc, rn)

\* the physics processes as constructed, while another component is explored
PhysicsIdle == PhysicsInitOf(Rat(1000, 1), FALSE, RZero, RZero, RZero)

\* the statements of Condensation.apply, in order
Condensation_apply_theta_last(wk) ==
    (IF wk THEN <<"solve">> ELSE << >>)
    \o <<"rate", "water_v", "water_c", "theta">>

Condensation_apply_statements(wk) ==
    (IF wk THEN <<"solve">> ELSE << >>)
    \o <<"rate", "theta", "water_v", "water_c">>

\* one statement of Condensation.apply run on the values st that the
\* statements before it have left: cond_rate_solver.solve() places the raw
\* rate in dot_r_cond; lim_cond_rate.interpolate() clips the raw rate (the
\* Function dot_r_cond when weak, the expression otherwise) into cond_rate;
\* the three assigns evaluate their Interpolator at the current values.
\* reads keeps, per statement, the water values and the rate it read.
Condensation_statement(st, stmt, tstep) ==
    LET read == [stmt |-> stmt, water_v |-> st.water_v, water_c |-> st.water_c,
                 rate |-> IF stmt = "solve" THEN st.raw
                          ELSE IF stmt = "rate"
                          THEN (IF st.weak THEN st.dot_r_cond ELSE st.raw)
                          ELSE st.cond_rate]
        seen == [st EXCEPT !.reads = Append(@, read)]
    IN  CASE stmt = "solve" -> [seen EXCEPT !.dot_r_cond = read.rate]
          [] stmt = "rate" ->
                [seen EXCEPT !.cond_rate =
                    lim_cond_rate(read.rate, read.water_v, read.water_c, tstep)]
          [] stmt = "theta" ->
                [seen EXCEPT !.theta =
                    theta_new(st.theta, read.rate, st.heat, tstep)]
          [] stmt = "water_v" ->
                [seen EXCEPT !.water_v =
                    water_v_new(read.water_v, read.rate, tstep)]
          [] stmt = "water_c" ->
                [seen EXCEPT !.water_c =
                    water_c_new(read.water_c, read.rate, tstep)]

RECURSIVE Condensation_apply(_, _, _)
Condensation_apply(st, stmts, tstep) ==
    IF stmts = << >> THEN st
    ELSE Condensation_apply(Condensation_statement(st, Head(stmts), tstep),
                            Tail(stmts), tstep)

\* Condensation.apply
CondensationApply ==
    /\ PhysicsEnabled
    /\ \E raw \in RawCondRates(dt), heat \in HeatCoeffs :
         LET st == [weak |-> weak, raw |-> raw, heat |-> heat,
                    dot_r_cond |-> dot_r_cond, cond_rate |-> cond_rate,
                    theta |-> theta, water_v |-> water_v,
                    water_c |-> water_c, reads |-> << >>]
             got == Condensation_apply(st, Condensation_apply_statements(weak),
                                       dt)
         IN  /\ dot_r_cond' = got.dot_r_cond
             /\ cond_rate' = got.cond_rate
             /\ theta' = got.theta
             /\ water_v' = got.water_v
             /\ water_c' = got.water_c
             /\ pcall' = [Before("Condensation", raw) EXCEPT
                              !.reads = got.reads]
    /\ nphys' = nphys + 1
    /\ UNCHANGED NotPhysics
    /\ UNCHANGED <<dt, weak, rain, coalescence_rate, collection_rate,
                   autoconversion_rate>>

\* Coalescence.apply
CoalescenceApply ==
    /\ PhysicsEnabled
    /\ \E p \in Pow0875(rain) :
         LET raw == RAdd(collection(water_c, p), autoconversion(water_c))
             rate == lim_coalescence_rate(raw, water_c, dt)
         IN  /\ coalescence_rate' = rate
             /\ water_c' = water_c_minus(water_c, rate, dt)
             /\ rain' = rain_plus(rain, rate, dt)
             /\ pcall' = Before("Coalescence", raw)
    /\ nphys' = nphys + 1
    /\ UNCHANGED NotPhysics
    /\ UNCHANGED <<dt, weak, theta, water_v, dot_r_cond, cond_rate,
                   collection_rate, autoconversion_rate>>

\* the rate Collection.apply leaves in collection_rate: the projected raw
\* rate; apply() does not run self.limit_rate
Collection_rate_applied(raw, wc, tstep) == raw

\* Collection.apply
CollectionApply ==
    /\ PhysicsEnabled
    /\ \E p \in Pow0875(rain) :
         LET raw == collection(water_c, p)
             rate == Collection_rate_applied(raw, water_c, dt)
         IN  /\ collection_rate' = rate
             /\ water_c' = water_c_minus(water_c, rate, dt)
             /\ rain' = rain_plus(rain, rate, dt)
             /\ pcall' = Before("Collection", raw)
    /\ nphys' = nphys + 1
    /\ UNCHANGED NotPhysics
    /\ UNCHANGED <<dt, weak, theta, water_v, dot_r_cond, cond_rate,
                   coalescence_rate, autoconversion_rate>>

\* Autoconversion.apply
AutoconversionApply ==
    /\ PhysicsEnabled
    /\ LET raw == autoconversion(water_c)
           rate == Autoconversion_limit_rate(raw, water_c, rain, dt)
       IN  /\ autoconversion_rate' = rate
           /\ water_c' = water_c_minus(water_c, rate, dt)
           /\ rain' = rain_plus(rain, rate, dt)
           /\ pcall' = Before("Autoconversion", raw)
    /\ nphys' = nphys + 1
    /\ UNCHANGED NotPhysics
    /\ UNCHANGED <<dt, weak, theta, water_v, dot_r_cond, cond_rate,
                   coalescence_rate, collection_rate>>

PhysicsNext ==
    \/ CondensationApply
    \/ CoalescenceApply
    \/ CollectionApply
    \/ AutoconversionApply


(***************************************************************************)
(* gusto/forcing.py                                                        *)
(*                                                                         *)
(* A mixed-state Function is the sequence of its components, as split()    *)
(* returns them: <<u, rho, theta>>, <<u, p, b>> or <<u, D>>.  The mass      *)
(* matrix of the one velocity degree of freedom is 1, so the solve places  *)
(* the assembled right-hand side L in uF.                                  *)
(***************************************************************************)
None == <<>>
Some(v) == <<v>>
IsNone(o) == o = <<>>
Val(o) == o[1]

Half == Rat(1, 2)
Two == Rat(2, 1)

Objs == {"xn", "xnp1", "xrhs"}

\* Forcing.__init__: linear switches euler_poincare off
euler_poincare_of(kw_euler_poincare, kw_linear) ==
    IF kw_linear THEN FALSE ELSE kw_euler_poincare

Conf(variant, ep, linear, mu, Omega, geopotential) ==
    [variant |-> variant, euler_poincare |-> euler_poincare_of(ep, linear),
     mu |-> mu, Omega |-> Omega, geopotential |-> geopotential,
     cp |-> Two, g |-> ROne, Phi |-> ROne, f |-> ROne, u_init |-> ROne]

ForcingConfigs ==
    { Conf("Compressible", TRUE, FALSE, None, None, FALSE),
      Conf("Compressible", TRUE, TRUE, Some(ROne), Some(ROne), TRUE),
      Conf("Incompressible", TRUE, FALSE, Some(Two), Some(ROne), FALSE),
      Conf("ShallowWater", TRUE, FALSE, None, None, FALSE) }

\* exner(): (R_d/p_0)**(kappa/(1-kappa)) * pow(rho*theta, kappa/(1-kappa)).
\* The power is not rational; the model keeps the dependence on rho*theta.
exner(th, rho) == RMul(rho, th)

\* the sponge term of L: mu_scaling*mu*inner(w,k)*inner(u0,k)
SpongeTerm(conf, musc, u0) ==
    IF IsNone(conf.mu) THEN RZero ELSE RMul(RMul(Val(musc), Val(conf.mu)), u0)

\* the terms of L that CompressibleForcing multiplies by self.scaling
CompressibleScaled(conf, X0) ==
    LET u0 == X0[1]
        rho0 == X0[2]
        theta0 == X0[3]
        pressure == RMul(conf.cp, RMul(theta0, exner(theta0, rho0)))
        gravity == IF conf.geopotential THEN conf.Phi ELSE RNeg(conf.g)
        kinetic == IF conf.euler_poincare
                   THEN RNeg(RMul(Half, RMul(u0, u0))) ELSE RZero
        coriolis == IF IsNone(conf.Omega) THEN RZero
                    ELSE RNeg(RMul(RMul(Two, Val(conf.Omega)),
                                   RSub(u0, conf.u_init)))
    IN  RAdd(RAdd(pressure, gravity), RAdd(kinetic, coriolis))

\* the terms of L that IncompressibleForcing multiplies by self.scaling
IncompressibleScaled(conf, X0) ==
    LET u0 == X0[1]
        p0 == X0[2]
        b0 == X0[3]
        kinetic == IF conf.euler_poincare
                   THEN RNeg(RMul(Half, RMul(u0, u0))) ELSE RZero
        coriolis == IF IsNone(conf.Omega) THEN RZero
                    ELSE RNeg(RMul(RMul(Two, Val(conf.Omega)), u0))
    IN  RAdd(RAdd(p0, b0), RAdd(kinetic, coriolis))

\* a solve whose right-hand side leaves the scaling out
u_forcing_solve_unscaled(conf, sc, musc, X0) ==
    LET scaled == IF conf.variant = "Compressible"
                  THEN CompressibleScaled(conf, X0)
                  ELSE IncompressibleScaled(conf, X0)
    IN  RSub(scaled, SpongeTerm(conf, musc, X0[1]))

\* CompressibleForcing / IncompressibleForcing: u_forcing_solver.solve() with
\* L = scaling*(...) - mu_scaling*mu*inner(w,k)*inner(u0,k)
u_forcing_solve(conf, sc, musc, X0) ==
    LET scaled == IF conf.variant = "Compressible"
                  THEN CompressibleScaled(conf, X0)
                  ELSE IncompressibleScaled(conf, X0)
    IN  RSub(RMul(sc, scaled), SpongeTerm(conf, musc, X0[1]))

\* ShallowWaterForcing: u_forcing_solver.solve(); L carries no scaling
ShallowWater_solve(conf, X0) ==
    LET u0 == X0[1]
        D0 == X0[2]
        un == RMul(Half, RAdd(u0, Rat(Abs(u0.n), u0.d)))
        kinetic == IF conf.euler_poincare
                   THEN RNeg(RMul(Half, RMul(u0, u0))) ELSE RZero
    IN  RAdd(RSub(RAdd(RNeg(RMul(conf.f, u0)), RMul(conf.g, D0)),
                  RMul(conf.g, RMul(un, D0))),
             kinetic)

\* divergence_solver.solve(): divu is the projection of div(u0)
divergence_solve(X0) == X0[1]

\* keyword arguments: kind "absent" (not passed), "None", "False", "True" or
\* "value" (then val is the number passed)
Absent == [kind |-> "absent", val |-> RZero]
KwNone == [kind |-> "None", val |-> RZero]
KwValue(v) == [kind |-> "value", val |-> v]
KwBool(b) == [kind |-> IF b THEN "True" ELSE "False", val |-> RZero]

\* 'mu_alpha' in kwargs and kwargs['mu_alpha'] is not None
mu_alpha_given(kw) == kw.kind = "value"
\* the keyword tested for presence only
incompressible_in_kwargs(kw) == kw.kind # "absent"
\* 'incompressible' in kwargs and kwargs['incompressible']
incompressible_requested(kw) == kw.kind = "True"

\* the forcing added to x_out without copying x_in first
add_without_assign(x_in_val, x_out_val, force) ==
    [x_out_val EXCEPT ![1] = RAdd(x_in_val[1], force)]

\* x_out.assign(x_in); u_out += uF
assign_and_add(x_in_val, x_out_val, force) ==
    [x_in_val EXCEPT ![1] = RAdd(x_in_val[1], force)]

Scales == {RZero, ROne, Two}
MuAlphas == {Absent, KwNone, KwValue(Two)}
IncompressibleKws == {Absent, KwBool(FALSE), KwBool(TRUE)}
\* (x_in, x_nl, x_out): distinct objects, x_in is x_nl, x_in is x_out, x_nl is x_out
CallShapes == { <<"xn", "xnp1", "xrhs">>, <<"xn", "xn", "xrhs">>,
                <<"xrhs", "xnp1", "xrhs">>, <<"xn", "xrhs", "xrhs">> }

Small(v) == Abs(v.n) <= MaxComponent /\ v.d <= MaxComponent
ForcingEnabled(variant) ==
    /\ fconf.variant = variant
    /\ nforce < MaxForcingApply
    /\ \A o \in Objs : \A i \in 1..Len(xs[o]) : Small(xs[o][i])

Call(sc, shape, mu_alpha, incompressible, result) ==
    [scale |-> sc, x_in |-> shape[1], x_nl |-> shape[2], x_out |-> shape[3],
     mu_alpha |-> mu_alpha, incompressible |-> incompressible,
     result |-> result, xs |-> xs, mu_scaling |-> mu_scaling,
     ndivsolve |-> ndivsolve]

ZeroState(variant) ==
    IF variant = "ShallowWater" THEN <<RZero, RZero>> ELSE <<RZero, RZero, RZero>>

ForcingInitOf(conf, u1, u2) ==
    /\ fconf = conf
    /\ xs = [o \in Objs |->
           IF o = "xrhs" THEN ZeroState(fconf.variant)
           ELSE LET u == IF o = "xn" THEN u1 ELSE u2
                    c == IF o = "xn" THEN Two ELSE ROne
                IN  IF fconf.variant = "ShallowWater"
                    THEN <<u, c>> ELSE <<u, c, ROne>>]
    /\ x0 = ZeroState(fconf.variant)
    /\ scaling = IF fconf.variant = "ShallowWater" THEN None ELSE Some(ROne)
    /\ mu_scaling = IF fconf.variant # "ShallowWater" /\ ~IsNone(fconf.mu)
                    THEN Some(ROne) ELSE None
    /\ uF = RZero
    /\ divu = RZero
    /\ ndivsolve = 0
    /\ fcall = Call(RZero, <<"xn", "xn", "xn">>, Absent, Absent, "none")
    /\ nforce = 0

\* CompressibleForcing.apply
CompressibleApply ==
    /\ ForcingEnabled("Compressible")
    /\ \E sc \in Scales, shape \in CallShapes, mu_alpha \in MuAlphas :
         LET X0 == xs[shape[2]]
         IN  /\ x0' = X0
             /\ scaling' = Some(sc)
             /\ IF mu_alpha_given(mu_alpha) /\ IsNone(mu_scaling)
                THEN \* self.mu_scaling does not exist: AttributeError
                     /\ fcall' = Call(sc, shape, mu_alpha, Absent, "AttributeError")
                     /\ UNCHANGED <<mu_scaling, uF, xs>>
                ELSE LET musc == IF mu_alpha_given(mu_alpha)
                                 THEN Some(mu_alpha.val) ELSE mu_scaling
                         force == u_forcing_solve(fconf, sc, musc, X0)
                     IN  /\ mu_scaling' = musc
                         /\ uF' = force
                         /\ xs' = [xs EXCEPT ![shape[3]] =
                                    assign_and_add(xs[shape[1]], xs[shape[3]], force)]
                         /\ fcall' = Call(sc, shape, mu_alpha, Absent, "ok")
    /\ nforce' = nforce + 1
    /\ UNCHANGED <<fconf, divu, ndivsolve>>
    /\ UNCHANGED NotForcing

\* IncompressibleForcing.apply
IncompressibleApply ==
    /\ ForcingEnabled("Incompressible")
    /\ \E sc \in Scales, shape \in CallShapes, mu_alpha \in MuAlphas,
          inc \in IncompressibleKws :
         LET X0 == xs[shape[2]]
         IN  /\ x0' = X0
             /\ scaling' = Some(sc)
             /\ IF mu_alpha_given(mu_alpha) /\ IsNone(mu_scaling)
                THEN \* self.mu_scaling does not exist: AttributeError
                     /\ fcall' = Call(sc, shape, mu_alpha, inc, "AttributeError")
                     /\ UNCHANGED <<mu_scaling, uF, xs, divu, ndivsolve>>
                ELSE LET musc == IF mu_alpha_given(mu_alpha)
                                 THEN Some(mu_alpha.val) ELSE mu_scaling
                         force == u_forcing_solve(fconf, sc, musc, X0)
                         out == assign_and_add(xs[shape[1]], xs[shape[3]], force)
                     IN  /\ mu_scaling' = musc
                         /\ uF' = force
                         /\ IF incompressible_requested(inc)
                            THEN /\ divu' = divergence_solve(X0)
                                 /\ ndivsolve' = ndivsolve + 1
                                 /\ xs' = [xs EXCEPT ![shape[3]] =
                                            [out EXCEPT ![2] = divergence_solve(X0)]]
                            ELSE /\ xs' = [xs EXCEPT ![shape[3]] = out]
                                 /\ UNCHANGED <<divu, ndivsolve>>
                         /\ fcall' = Call(sc, shape, mu_alpha, inc, "ok")
    /\ nforce' = nforce + 1
    /\ UNCHANGED fconf
    /\ UNCHANGED NotForcing

\* ShallowWaterForcing.apply: keyword arguments are not read
ShallowWaterApply ==
    /\ ForcingEnabled("ShallowWater")
    /\ \E sc \in Scales, shape \in CallShapes, mu_alpha \in MuAlphas :
         LET X0 == xs[shape[2]]
             force == RMul(ShallowWater_solve(fconf, X0), sc)
         IN  /\ x0' = X0
             /\ uF' = force
             /\ xs' = [xs EXCEPT ![shape[3]] =
                        assign_and_add(xs[shape[1]], xs[shape[3]], force)]
             /\ fcall' = Call(sc, shape, mu_alpha, Absent, "ok")
    /\ nforce' = nforce + 1
    /\ UNCHANGED <<fconf, scaling, mu_scaling, divu, ndivsolve>>
    /\ UNCHANGED NotForcing

ForcingInit ==
    \E conf \in ForcingConfigs : ForcingInitOf(conf, ROne, Two)

\* the forcing operator as constructed, while another component is explored
ForcingIdle ==
    ForcingInitOf(Conf("Compressible", TRUE, FALSE, None, None, FALSE), ROne, RZero)

ForcingNext ==
    \/ CompressibleApply
    \/ IncompressibleApply
    \/ ShallowWaterApply


(***************************************************************************)
(* gusto/state.py: SpaceCreator, FieldCreator, State.__init__,             *)
(* State.initialise, State.set_reference_profiles                          *)
(*                                                                         *)
(* A function space is the pair <<family, degree>> it was built from.  A    *)
(* Function is a record of its name, its space, its dump and pickup flags   *)
(* and its value; the registry refers to Functions by their index in funcs. *)
(***************************************************************************)
FunctionSpace(family, degree) == <<family, degree>>

Function(space, name) ==
    [name |-> name, space |-> space, dump |-> TRUE, pickup |-> TRUE, val |-> 0]

\* FieldCreator.__init__: one Function per (name, component of xn), in order
RECURSIVE FieldCreator_init(_, _, _, _)
FieldCreator_init(reg, names, comps, dumplist) ==
    IF names = <<>> \/ comps = <<>> THEN reg
    ELSE LET name == Head(names)
             idx == Len(reg.funcs) + 1
             func == [Function(Head(comps), name) EXCEPT
                         !.dump = \E k \in 1..Len(dumplist) : dumplist[k] = name,
                         !.pickup = TRUE]
         IN  FieldCreator_init(
                 [funcs |-> Append(reg.funcs, func),
                  attr |-> [n \in DOMAIN reg.attr \cup {name} |->
                              IF n = name THEN idx ELSE reg.attr[n]],
                  list |-> Append(reg.list, idx)],
                 Tail(names), Tail(comps), dumplist)

\* FieldCreator.__call__ with every lookup creating a new Function
FieldCreator_call_always_creates(reg, name, space, dump, pickup) ==
    IF IsNone(space)
    THEN [reg |-> reg, ret |-> 0, result |-> "NotImplementedError"]
    ELSE LET idx == Len(reg.funcs) + 1
             func == [Function(Val(space), name) EXCEPT
                         !.dump = dump, !.pickup = pickup]
         IN  [reg |-> [funcs |-> Append(reg.funcs, func),
                       attr |-> [n \in DOMAIN reg.attr \cup {name} |->
                                   IF n = name THEN idx ELSE reg.attr[n]],
                       list |-> Append(reg.list, idx)],
              ret |-> idx, result |-> "ok"]

\* FieldCreator.__call__ with the flags of a cached Function overwritten
FieldCreator_call_resets_flags(reg, name, space, dump, pickup) ==
    IF name \in DOMAIN reg.attr
    THEN [reg |-> [reg EXCEPT !.funcs[reg.attr[name]].dump = dump,
                              !.funcs[reg.attr[name]].pickup = pickup],
          ret |-> reg.attr[name], result |-> "ok"]
    ELSE FieldCreator_call_always_creates(reg, name, space, dump, pickup)

\* FieldCreator.__call__: getattr(self, name), or on AttributeError create the
\* Function, set the attribute and the flags and append to self.fields.
\* Function(None) raises NotImplementedError before anything is registered.
FieldCreator_call(reg, name, space, dump, pickup) ==
    IF name \in DOMAIN reg.attr
    THEN [reg |-> reg, ret |-> reg.attr[name], result |-> "ok"]
    ELSE IF IsNone(space)
    THEN [reg |-> reg, ret |-> 0, result |-> "NotImplementedError"]
    ELSE LET idx == Len(reg.funcs) + 1
             func == [Function(Val(space), name) EXCEPT
                         !.dump = dump, !.pickup = pickup]
         IN  [reg |-> [funcs |-> Append(reg.funcs, func),
                       attr |-> [n \in DOMAIN reg.attr \cup {name} |->
                                   IF n = name THEN idx ELSE reg.attr[n]],
                       list |-> Append(reg.list, idx)],
              ret |-> idx, result |-> "ok"]

\* SpaceCreator.__call__: getattr(self, name), or on AttributeError build the
\* FunctionSpace and set the attribute.  args is None or Some(<<family, degree>>);
\* FunctionSpace(None, None, None) raises.
SpaceCreator_call(attr, name, args) ==
    IF name \in DOMAIN attr
    THEN [attr |-> attr, ret |-> Some(attr[name]), result |-> "ok"]
    ELSE IF IsNone(args)
    THEN [attr |-> attr, ret |-> None, result |-> "Error"]
    ELSE LET value == FunctionSpace(Val(args)[1], Val(args)[2])
         IN  [attr |-> [n \in DOMAIN attr \cup {name} |->
                          IF n = name THEN value ELSE attr[n]],
              ret |-> Some(value), result |-> "ok"]

\* State.initialise: for name, ic in initial_conditions: getattr(self.fields,
\* name) (AttributeError ends the call), assign(ic), rename(name)
RECURSIVE initialise_skipping_unregistered(_, _)
initialise_skipping_unregistered(reg, pairs) ==
    IF pairs = <<>> THEN [reg |-> reg, result |-> "ok"]
    ELSE LET name == Head(pairs)[1]
             ic == Head(pairs)[2]
         IN  IF name \notin DOMAIN reg.attr
             THEN initialise_skipping_unregistered(reg, Tail(pairs))
             ELSE initialise_skipping_unregistered(
                      [reg EXCEPT !.funcs[reg.attr[name]].val = ic,
                                  !.funcs[reg.attr[name]].name = name],
                      Tail(pairs))

RECURSIVE initialise(_, _)
initialise(reg, pairs) ==
    IF pairs = <<>> THEN [reg |-> reg, result |-> "ok"]
    ELSE LET name == Head(pairs)[1]
             ic == Head(pairs)[2]
         IN  IF name \notin DOMAIN reg.attr
             THEN [reg |-> reg, result |-> "AttributeError"]
             ELSE initialise(
                      [reg EXCEPT !.funcs[reg.attr[name]].val = ic,
                                  !.funcs[reg.attr[name]].name = name],
                      Tail(pairs))

\* State.set_reference_profiles: for name, profile in reference_profiles:
\* field = getattr(self.fields, name); ref = self.fields(name+'bar',
\* field.function_space(), False); ref.interpolate(profile)
reference_field_dumped(reg, name, space) ==
    FieldCreator_call(reg, name \o "bar", Some(space), TRUE, TRUE)

reference_field(reg, name, space) ==
    FieldCreator_call(reg, name \o "bar", Some(space), FALSE, TRUE)

RECURSIVE set_reference_profiles(_, _)
set_reference_profiles(reg, pairs) ==
    IF pairs = <<>> THEN [reg |-> reg, result |-> "ok"]
    ELSE LET name == Head(pairs)[1]
             profile == Head(pairs)[2]
         IN  IF name \notin DOMAIN reg.attr
             THEN [reg |-> reg, result |-> "AttributeError"]
             ELSE LET field == reg.funcs[reg.attr[name]]
                      got == reference_field(reg, name, field.space)
                  IN  set_reference_profiles(
                          [got.reg EXCEPT !.funcs[got.ret].val = profile],
                          Tail(pairs))

\* State._build_spaces: the spaces registered, and the components of W
ExtrudedSpaces ==
    [n \in {"HDiv", "DG", "HDiv_v", "Vv"} |->
        CASE n = "HDiv" -> FunctionSpace("V2_elt", 0)
          [] n = "DG" -> FunctionSpace("V3_elt", 0)
          [] n = "HDiv_v" -> FunctionSpace("V2t_elt", 0)
          [] OTHER -> FunctionSpace("V2v_elt", 0)]
PlanarSpaces ==
    [n \in {"HDiv", "DG"} |->
        IF n = "HDiv" THEN FunctionSpace("V1_elt", 0) ELSE FunctionSpace("DG", 1)]
W_of(spaces) ==
    IF "HDiv_v" \in DOMAIN spaces
    THEN <<spaces["HDiv"], spaces["DG"], spaces["HDiv_v"]>>
    ELSE <<spaces["HDiv"], spaces["DG"]>>

EmptyRegistry == [funcs |-> <<>>, attr |-> <<>>, list |-> <<>>]
Registry == [funcs |-> funcs, attr |-> fattr, list |-> flist]

\* State.__init__ as the callers in the repository make it: the field list,
\* whether the mesh is extruded, and output.dumplist (None: the field list)
StateConfigs ==
    { [fieldlist |-> <<"u", "rho", "theta">>, extruded |-> TRUE,
       dumplist |-> Some(<<"u">>)],
      [fieldlist |-> <<"u", "rho", "theta">>, extruded |-> TRUE,
       dumplist |-> None],
      [fieldlist |-> <<"u", "D">>, extruded |-> FALSE, dumplist |-> None],
      [fieldlist |-> <<"u">>, extruded |-> TRUE, dumplist |-> Some(<<"u">>)] }

RegCall(op, name, args, result, ret) ==
    [op |-> op, name |-> name, args |-> args, result |-> result, ret |-> ret,
     funcs |-> funcs, fattr |-> fattr, flist |-> flist, sattr |-> sattr]

NoArgs == [space |-> None, dump |-> TRUE, pickup |-> TRUE, pairs |-> <<>>]

RegistryInitOf(cfg) ==
    LET spaces == IF cfg.extruded THEN ExtrudedSpaces ELSE PlanarSpaces
        dumplist == IF IsNone(cfg.dumplist) THEN cfg.fieldlist
                    ELSE Val(cfg.dumplist)
        reg == FieldCreator_init(EmptyRegistry, cfg.fieldlist, W_of(spaces),
                                 dumplist)
    IN  /\ fieldlist = cfg.fieldlist
        /\ sattr = spaces
        /\ funcs = reg.funcs
        /\ fattr = reg.attr
        /\ flist = reg.list
        /\ scall = [op |-> "none", name |-> "", args |-> NoArgs,
                    result |-> "ok", ret |-> 0, funcs |-> reg.funcs,
                    fattr |-> reg.attr, flist |-> reg.list, sattr |-> spaces]
        /\ nstate = 0

RegistryInit == \E cfg \in StateConfigs : RegistryInitOf(cfg)

\* the State as constructed, while another component is explored
RegistryIdle ==
    RegistryInitOf([fieldlist |-> <<"u", "rho", "theta">>, extruded |-> TRUE,
                    dumplist |-> None])

LookupNames == {"u", "rho", "rain", "rhobar"}
FieldArgs ==
    { [space |-> None, dump |-> TRUE, pickup |-> TRUE],
      [space |-> Some(FunctionSpace("V3_elt", 0)), dump |-> TRUE, pickup |-> TRUE],
      [space |-> Some(FunctionSpace("CG", 1)), dump |-> FALSE, pickup |-> FALSE] }
SpaceNames == {"DG", "CG"}
SpaceArgs == {None, Some(<<"CG", 1>>), Some(<<"DG", 0>>)}
InitialConditions ==
    { <<<<"u", 1>>>>, <<<<"rho", 2>>, <<"u", 2>>>>, <<<<"u", 3>>, <<"rain", 1>>>> }
ReferenceProfiles ==
    { <<<<"rho", 1>>>>, <<<<"rho", 2>>, <<"u", 1>>>>, <<<<"u", 2>>, <<"theta1", 1>>>> }

RegistryEnabled == nstate < MaxStateCalls

\* state.fields(name, space, dump, pickup)
FieldsCall ==
    /\ RegistryEnabled
    /\ \E name \in LookupNames, args \in FieldArgs :
         LET got == FieldCreator_call(Registry, name, args.space, args.dump,
                                      args.pickup)
         IN  /\ Len(got.reg.funcs) <= MaxFunctions
             /\ funcs' = got.reg.funcs
             /\ fattr' = got.reg.attr
             /\ flist' = got.reg.list
             /\ scall' = RegCall("fields", name,
                                 [space |-> args.space, dump |-> args.dump,
                                  pickup |-> args.pickup, pairs |-> <<>>],
                                 got.result, got.ret)
    /\ nstate' = nstate + 1
    /\ UNCHANGED <<fieldlist, sattr>>
    /\ UNCHANGED NotRegistry

\* state.spaces(name, mesh, family, degree)
SpacesCall ==
    /\ RegistryEnabled
    /\ \E name \in SpaceNames, args \in SpaceArgs :
         LET got == SpaceCreator_call(sattr, name, args)
         IN  /\ sattr' = got.attr
             /\ scall' = RegCall("spaces", name,
                                 [space |-> args, dump |-> TRUE, pickup |-> TRUE,
                                  pairs |-> <<>>],
                                 got.result, got.ret)
    /\ nstate' = nstate + 1
    /\ UNCHANGED <<fieldlist, funcs, fattr, flist>>
    /\ UNCHANGED NotRegistry

\* state.initialise(initial_conditions)
InitialiseCall ==
    /\ RegistryEnabled
    /\ \E pairs \in InitialConditions :
         LET got == initialise(Registry, pairs)
         IN  /\ funcs' = got.reg.funcs
             /\ fattr' = got.reg.attr
             /\ flist' = got.reg.list
             /\ scall' = RegCall("initialise", "",
                                 [NoArgs EXCEPT !.pairs = pairs], got.result, 0)
    /\ nstate' = nstate + 1
    /\ UNCHANGED <<fieldlist, sattr>>
    /\ UNCHANGED NotRegistry

\* state.set_reference_profiles(reference_profiles)
SetReferenceProfilesCall ==
    /\ RegistryEnabled
    /\ \E pairs \in ReferenceProfiles :
         LET got == set_reference_profiles(Registry, pairs)
         IN  /\ Len(got.reg.funcs) <= MaxFunctions
             /\ funcs' = got.reg.funcs
             /\ fattr' = got.reg.attr
             /\ flist' = got.reg.list
             /\ scall' = RegCall("set_reference_profiles", "",
                                 [NoArgs EXCEPT !.pairs = pairs], got.result, 0)
    /\ nstate' = nstate + 1
    /\ UNCHANGED <<fieldlist, sattr>>
    /\ UNCHANGED NotRegistry

\* Fallout.__init__ as far as it touches the state: state.fields('rain'),
\* state.fields('u'), state.fields("rainfall_velocity", Vu), then the branch
\* on moments (moments 1 reads state.fields('rho')); a lookup of a field that
\* is not registered ends the constructor with the error of Function(None)
Fallout_init(reg, moments) ==
    LET rain_ == FieldCreator_call(reg, "rain", None, TRUE, TRUE)
        u_ == FieldCreator_call(rain_.reg, "u", None, TRUE, TRUE)
    IN  IF rain_.result # "ok" THEN [reg |-> reg, result |-> rain_.result]
        ELSE IF u_.result # "ok" THEN [reg |-> reg, result |-> u_.result]
        ELSE LET Vu == u_.reg.funcs[u_.ret].space
                 v == FieldCreator_call(u_.reg, "rainfall_velocity", Some(Vu),
                                        TRUE, TRUE)
                 rho == FieldCreator_call(v.reg, "rho", None, TRUE, TRUE)
             IN  IF moments = 0 THEN [reg |-> v.reg, result |-> "ok"]
                 ELSE IF moments = 1 THEN [reg |-> rho.reg, result |-> rho.result]
                 ELSE [reg |-> v.reg, result |-> "NotImplementedError"]

Moments == {0, 1, 2}

\* Fallout(state, moments)
FalloutInitCall ==
    /\ RegistryEnabled
    /\ \E moments \in Moments :
         LET got == Fallout_init(Registry, moments)
         IN  /\ Len(got.reg.funcs) <= MaxFunctions
             /\ funcs' = got.reg.funcs
             /\ fattr' = got.reg.attr
             /\ flist' = got.reg.list
             /\ scall' = RegCall("Fallout", "",
                                 [NoArgs EXCEPT !.pairs = <<<<"moments", moments>>>>],
                                 got.result, 0)
    /\ nstate' = nstate + 1
    /\ UNCHANGED <<fieldlist, sattr>>
    /\ UNCHANGED NotRegistry

RegistryNext ==
    \/ FieldsCall
    \/ SpacesCall
    \/ InitialiseCall
    \/ SetReferenceProfilesCall
    \/ FalloutInitCall

(***************************************************************************)
(* gusto/state.py: State.__init__, State.setup_dump, State.dump            *)
(*                                                                         *)
(* The field file is the number of writes made to it, a checkpoint file is *)
(* the record of the datasets stored in it (by Function name) and of its   *)
(* time attribute.  output.dumplist_latlon is empty, as OutputParameters   *)
(* leaves it unless the caller asks for lat-lon output.                     *)
(***************************************************************************)
\* the output parameter objects handed to State: whether dirname contains
\* "pytest", dumpfreq, and dumplist (None: the field list)
OutputConfigs ==
    { [pytest |-> FALSE, dumpfreq |-> 2, dumplist |-> None],
      [pytest |-> FALSE, dumpfreq |-> 3, dumplist |-> None],
      [pytest |-> TRUE, dumpfreq |-> 1, dumplist |-> Some(<<"u">>)] }

\* the meshes and field lists State is constructed with
DumpStateConfigs ==
    { [fieldlist |-> <<"u", "rho", "theta">>, extruded |-> TRUE],
      [fieldlist |-> <<"u", "D">>, extruded |-> FALSE] }

\* State.__init__ stopping after self.fieldlist = fieldlist
State_init_not_built(names, extruded, out) ==
    [result |-> "RuntimeError", fieldlist |-> names, output |-> None,
     spaces |-> <<>>, allocated |-> FALSE, reg |-> EmptyRegistry]

\* State.__init__ building the spaces and the fields before it looks at output
State_init_checks_output_last(names, extruded, out) ==
    LET spaces == IF extruded THEN ExtrudedSpaces ELSE PlanarSpaces
        reg == FieldCreator_init(EmptyRegistry, names, W_of(spaces), names)
    IN  IF IsNone(out)
        THEN [result |-> "RuntimeError", fieldlist |-> names, output |-> None,
              spaces |-> spaces, allocated |-> TRUE, reg |-> reg]
        ELSE [result |-> "built", fieldlist |-> names, output |-> out,
              spaces |-> spaces, allocated |-> TRUE, reg |-> reg]

\* State.__init__: self.fieldlist is assigned, then a missing output raises
\* RuntimeError; otherwise _build_spaces, _allocate_state, the dumplist
\* default and the FieldCreator
State_init(names, extruded, out) ==
    IF IsNone(out)
    THEN State_init_not_built(names, extruded, out)
    ELSE LET spaces == IF extruded THEN ExtrudedSpaces ELSE PlanarSpaces
             dumplist == IF IsNone(Val(out).dumplist) THEN names
                         ELSE Val(Val(out).dumplist)
             reg == FieldCreator_init(EmptyRegistry, names, W_of(spaces),
                                      dumplist)
         IN  [result |-> "built", fieldlist |-> names,
              output |-> Some([Val(out) EXCEPT !.dumplist = Some(dumplist)]),
              spaces |-> spaces, allocated |-> TRUE, reg |-> reg]

\* the fields of the container whose flag is set, in the order of fields.fields
RECURSIVE FieldsWith(_, _, _)
FieldsWith(reg, flag, i) ==
    IF i > Len(reg.list) THEN <<>>
    ELSE LET rest == FieldsWith(reg, flag, i + 1)
             f == reg.funcs[reg.list[i]]
             set == IF flag = "dump" THEN f.dump ELSE f.pickup
         IN  IF set THEN <<reg.list[i]>> \o rest ELSE rest

\* the check of setup_dump that protects existing output
refuses_to_overwrite_ignoring_pickup(rk, out, exists, pickup) ==
    rk = 0 /\ ~out.pytest /\ exists
refuses_to_overwrite(rk, out, exists, pickup) ==
    rk = 0 /\ ~out.pytest /\ exists /\ ~pickup

\* len(f.ufl_shape): 1 for a Function of an HDiv space (a vector), 0 for a
\* scalar
ufl_shape_len_of_scalar(space) == 0

ufl_shape_len(space) ==
    IF space[1] \in {"V2_elt", "V1_elt", "V2v_elt"} THEN 1 ELSE 0

\* self.diagnostic_data[name][fn], a defaultdict of defaultdicts of lists: a
\* key that was never used reads as the empty list
diagnostic_list(data, name, fn) ==
    IF name \in DOMAIN data /\ fn \in DOMAIN data[name] THEN data[name][fn]
    ELSE << >>

\* the diagnostics of one dump: for each name in diagnostics.fields (the
\* field list), min, max, rms and l2 of the field are appended, and total
\* when the field is a scalar; a sample is kept as the field value it was
\* computed from
RECURSIVE compute_diagnostics(_, _, _)
compute_diagnostics(data, reg, names) ==
    IF names = << >> THEN data
    ELSE LET name == Head(names)
             f == reg.funcs[reg.attr[name]]
             fns == {"min", "max", "rms", "l2"}
                    \cup (IF ufl_shape_len(f.space) = 0 THEN {"total"} ELSE {})
             appended ==
                 [n \in DOMAIN data \cup {name} |->
                     IF n = name
                     THEN [fn \in fns |->
                             Append(diagnostic_list(data, name, fn), f.val)]
                     ELSE data[n]]
         IN  compute_diagnostics(appended, reg, Tail(names))

\* next(self.dumpcount) at the end of the pickup branch
pickup_leaves_counter(n) == n

pickup_advances_counter(n) == n + 1

\* chk.store(field) for field in to_pickup, then write_attribute("/", "time", t)
RECURSIVE chk_store(_, _, _)
chk_store(data, fields, i) ==
    IF i > Len(fields) THEN data
    ELSE LET f == funcs[fields[i]]
         IN  chk_store([n \in DOMAIN data \cup {f.name} |->
                          IF n = f.name THEN f.val ELSE data[n]],
                       fields, i + 1)

DumbCheckpoint_create(fields, t) ==
    [data |-> chk_store(<<>>, fields, 1), time |-> t]

\* chk.load(field) for field in to_pickup: a dataset that is not in the file
\* ends the loop with an error, the fields loaded before it keep their values
RECURSIVE chk_load(_, _, _, _)
chk_load(fs, file, fields, i) ==
    IF i > Len(fields) THEN [funcs |-> fs, result |-> "ok"]
    ELSE LET name == fs[fields[i]].name
         IN  IF name \notin DOMAIN file.data
             THEN [funcs |-> fs, result |-> "KeyError"]
             ELSE chk_load([fs EXCEPT ![fields[i]].val = file.data[name]],
                           file, fields, i + 1)

\* dump(t, diagnostic_everydump) as the time loop and a final dump call it;
\* dump(pickup=True) is called with the default t
DumpArgs == { [t |-> 1, everydump |-> FALSE, pickup |-> FALSE],
              [t |-> 2, everydump |-> TRUE, pickup |-> FALSE],
              [t |-> 0, everydump |-> FALSE, pickup |-> TRUE] }

DumpCallRecord(op, t, everydump, pickup, result, ret) ==
    [op |-> op, t |-> t, everydump |-> everydump, pickup |-> pickup,
     result |-> result, ret |-> ret,
     funcs |-> funcs, fattr |-> fattr, flist |-> flist, sattr |-> sattr,
     allocated |-> allocated, dumpdir_exists |-> dumpdir_exists,
     dumpcount |-> dumpcount, dumpfile |-> dumpfile,
     diagnostic_data |-> diagnostic_data,
     diagnostics_json |-> diagnostics_json, to_dump |-> to_dump,
     to_pickup |-> to_pickup, chkpt |-> chkpt, chkptbk |-> chkptbk,
     nplain |-> nplain, npick |-> npick]

NoDumpCall == DumpCallRecord("none", 0, FALSE, FALSE, "ok", 0)

\* before State(...) is called: nothing of the State exists; the results
\* directory may be there from an earlier run
StateUnbuilt ==
    /\ fieldlist = <<>>
    /\ funcs = <<>>
    /\ fattr = <<>>
    /\ flist = <<>>
    /\ sattr = <<>>
    /\ nstate = 0
    /\ scall = [op |-> "none", name |-> "", args |-> NoArgs, result |-> "ok",
                ret |-> 0, funcs |-> <<>>, fattr |-> <<>>, flist |-> <<>>,
                sattr |-> <<>>]
    /\ sbuilt = "unbuilt"
    /\ allocated = FALSE
    /\ output = None
    /\ \E rd \in {<<0, FALSE>>, <<0, TRUE>>, <<1, TRUE>>} :
         rank = rd[1] /\ dumpdir_exists = rd[2]
    /\ dumpcount = None
    /\ dumpfile = None
    /\ diagnostic_data = None
    /\ diagnostics_json = None
    /\ to_dump = None
    /\ to_pickup = None
    /\ chkpt = None
    /\ chkptbk = None
    /\ nplain = 0
    /\ npick = 0
    /\ lastwrite = None
    /\ ndump = 0
    /\ dcall = NoDumpCall

\* a State after a successful setup_dump(pickup=False), as a run of the
\* timestepper finds it
DumpSetUp ==
    /\ sbuilt = "built"
    /\ allocated = TRUE
    /\ \E freq \in 1..2 :
         output = Some([pytest |-> FALSE, dumpfreq |-> freq,
                        dumplist |-> Some(fieldlist)])
    /\ rank = 0
    /\ dumpdir_exists = TRUE
    /\ dumpcount = Some(0)
    /\ dumpfile = Some(0)
    /\ diagnostic_data = Some(<< >>)
    /\ diagnostics_json = None
    /\ to_dump = Some(FieldsWith(Registry, "dump", 1))
    /\ to_pickup = Some(FieldsWith(Registry, "pickup", 1))
    /\ chkpt = None
    /\ chkptbk = None
    /\ nplain = 0
    /\ npick = 0
    /\ lastwrite = None
    /\ ndump = 0
    /\ dcall = DumpCallRecord("setup_dump", 0, FALSE, FALSE, "ok", 0)

\* a State as constructed and not yet set up for output, while another
\* component is explored
DumpIdle ==
    /\ sbuilt = "built"
    /\ allocated = TRUE
    /\ output = Some([pytest |-> FALSE, dumpfreq |-> 1,
                      dumplist |-> Some(fieldlist)])
    /\ rank = 0
    /\ dumpdir_exists = FALSE
    /\ dumpcount = None
    /\ dumpfile = None
    /\ diagnostic_data = None
    /\ diagnostics_json = None
    /\ to_dump = None
    /\ to_pickup = None
    /\ chkpt = None
    /\ chkptbk = None
    /\ nplain = 0
    /\ npick = 0
    /\ lastwrite = None
    /\ ndump = 0
    /\ dcall = NoDumpCall

OutputUntouched ==
    UNCHANGED <<dumpdir_exists, dumpcount, dumpfile, diagnostic_data,
                diagnostics_json, to_dump, to_pickup, chkpt, chkptbk, nplain,
                npick>>

\* State(mesh, fieldlist, ..., output=out)
StateInitCall ==
    /\ sbuilt = "unbuilt"
    /\ \E cfg \in DumpStateConfigs,
          out \in {None} \cup {Some(o) : o \in OutputConfigs} :
         LET got == State_init(cfg.fieldlist, cfg.extruded, out)
         IN  /\ sbuilt' = got.result
             /\ fieldlist' = got.fieldlist
             /\ output' = got.output
             /\ sattr' = got.spaces
             /\ allocated' = got.allocated
             /\ funcs' = got.reg.funcs
             /\ fattr' = got.reg.attr
             /\ flist' = got.reg.list
    /\ dcall' = DumpCallRecord("State", 0, FALSE, FALSE, sbuilt', 0)
    /\ UNCHANGED <<scall, nstate, rank, ndump, lastwrite>>
    /\ OutputUntouched
    /\ UNCHANGED NotState

DumpEnabled == sbuilt = "built" /\ ndump < MaxDumpCalls

\* state.setup_dump(pickup): IOError when existing output would be
\* overwritten; otherwise a new counter, a new File (which makes the
\* directory), new diagnostic data and the lists to_dump and to_pickup
SetupDumpCall ==
    /\ DumpEnabled
    /\ \E pickup \in BOOLEAN :
         IF refuses_to_overwrite(rank, Val(output), dumpdir_exists, pickup)
         THEN /\ dcall' = DumpCallRecord("setup_dump", 0, FALSE, pickup,
                                         "IOError", 0)
              /\ OutputUntouched
         ELSE /\ dumpcount' = Some(0)
              /\ dumpfile' = Some(0)
              /\ dumpdir_exists' = TRUE
              /\ diagnostic_data' = Some(<< >>)
              /\ to_dump' = Some(FieldsWith(Registry, "dump", 1))
              /\ to_pickup' = Some(FieldsWith(Registry, "pickup", 1))
              /\ nplain' = 0
              /\ npick' = 0
              /\ dcall' = DumpCallRecord("setup_dump", 0, FALSE, pickup, "ok", 0)
              /\ UNCHANGED <<diagnostics_json, chkpt, chkptbk>>
    /\ lastwrite' = None
    /\ ndump' = ndump + 1
    /\ UNCHANGED <<sbuilt, allocated, output, rank>>
    /\ UNCHANGED regVars
    /\ UNCHANGED NotState

\* whether the call whose counter value is n writes output
dumps_every_call(n, dumpfreq) == TRUE
dumps_on(n, dumpfreq) == (n % dumpfreq) = 0

\* state.dump(t, diagnostic_everydump) once setup_dump has been called: the
\* counter is taken, and output is written when the cadence says so
dump_plain(t, everydump) ==
    /\ dumpcount' = Some(Val(dumpcount) + 1)
    /\ nplain' = nplain + 1
    /\ dcall' = DumpCallRecord("dump", t, everydump, FALSE, "ok", t)
    /\ IF dumps_on(Val(dumpcount), Val(output).dumpfreq)
       THEN /\ dumpfile' = Some(Val(dumpfile) + 1)
            /\ diagnostic_data' =
                 Some(compute_diagnostics(Val(diagnostic_data),
                                          Registry, fieldlist))
            /\ chkptbk' = Some(DumbCheckpoint_create(Val(to_pickup), t))
            /\ chkpt' = Some(DumbCheckpoint_create(Val(to_pickup), t))
            /\ diagnostics_json' =
                 IF everydump THEN diagnostic_data'
                 ELSE diagnostics_json
            /\ lastwrite' = Some([funcs |-> funcs, t |-> t])
       ELSE /\ UNCHANGED <<dumpfile, diagnostic_data, chkptbk, chkpt,
                           diagnostics_json>>
            /\ lastwrite' = None
    /\ UNCHANGED <<funcs, dumpdir_exists, to_dump, to_pickup, npick>>

\* state.dump(t, diagnostic_everydump, pickup)
DumpCall ==
    /\ DumpEnabled
    /\ \E args \in DumpArgs :
         LET t == args.t
             everydump == args.everydump
             pickup == args.pickup
         IN
         IF IsNone(dumpcount)
         THEN \* no setup_dump yet: self.dumpdir and self.dumpcount do not exist
              /\ dcall' = DumpCallRecord("dump", t, everydump, pickup,
                                         "AttributeError", 0)
              /\ OutputUntouched
              /\ UNCHANGED <<funcs, lastwrite>>
         ELSE IF pickup
         THEN IF IsNone(chkpt)
              THEN \* DumbCheckpoint(chkfile, mode=FILE_READ) on a missing file
                   /\ dcall' = DumpCallRecord("dump", t, everydump, pickup,
                                              "IOError", 0)
                   /\ npick' = npick + 1
                   /\ UNCHANGED <<dumpdir_exists, dumpcount, dumpfile,
                                  diagnostic_data, diagnostics_json, to_dump,
                                  to_pickup, chkpt, chkptbk, nplain>>
                   /\ UNCHANGED <<funcs, lastwrite>>
              ELSE LET got == chk_load(funcs, Val(chkpt), Val(to_pickup), 1)
                   IN  /\ funcs' = got.funcs
                       /\ IF got.result = "ok"
                          THEN /\ dumpcount' =
                                    Some(pickup_advances_counter(Val(dumpcount)))
                               /\ dcall' = DumpCallRecord("dump", t, everydump,
                                              pickup, "ok", Val(chkpt).time)
                          ELSE /\ dumpcount' = dumpcount
                               /\ dcall' = DumpCallRecord("dump", t, everydump,
                                              pickup, got.result, 0)
                       /\ npick' = npick + 1
                       /\ UNCHANGED <<dumpdir_exists, dumpfile, diagnostic_data,
                                      diagnostics_json, to_dump, to_pickup,
                                      chkpt, chkptbk, nplain, lastwrite>>
         ELSE dump_plain(t, everydump)
    /\ ndump' = ndump + 1
    /\ UNCHANGED <<sbuilt, allocated, output, rank>>
    /\ UNCHANGED <<fieldlist, fattr, flist, sattr, scall, nstate>>
    /\ UNCHANGED NotState

\* a further field registered by the set-up script or by a physics
\* constructor, on the velocity space, with the default flags:
\* state.fields(name, Vu)
LateFields == {"water_v"}
LateFieldsCall ==
    /\ DumpEnabled
    /\ \E name \in LateFields :
         LET got == FieldCreator_call(Registry, name,
                                      Some(funcs[fattr["u"]].space), TRUE, TRUE)
         IN  /\ funcs' = got.reg.funcs
             /\ fattr' = got.reg.attr
             /\ flist' = got.reg.list
             /\ dcall' = DumpCallRecord("fields", 0, FALSE, FALSE, got.result,
                                        got.ret)
    /\ lastwrite' = None
    /\ ndump' = ndump + 1
    /\ OutputUntouched
    /\ UNCHANGED <<sbuilt, allocated, output, rank>>
    /\ UNCHANGED <<fieldlist, sattr, scall, nstate>>
    /\ UNCHANGED NotState

\* a field is given a new value in place: state.initialise([(name, ic)])
AssignedFields == {"u", "water_v"}
NewValue(old) == IF old = 1 THEN 2 ELSE 1
AssignCall ==
    /\ DumpEnabled
    /\ \E name \in AssignedFields \cap DOMAIN fattr :
         LET got == initialise(Registry,
                               <<<<name, NewValue(funcs[fattr[name]].val)>>>>)
         IN  /\ funcs' = got.reg.funcs
             /\ dcall' = DumpCallRecord("initialise", 0, FALSE, FALSE,
                                        got.result, 0)
    /\ ndump' = ndump + 1
    /\ OutputUntouched
    /\ UNCHANGED lastwrite
    /\ UNCHANGED <<sbuilt, allocated, output, rank>>
    /\ UNCHANGED <<fieldlist, fattr, flist, sattr, scall, nstate>>
    /\ UNCHANGED NotState

DumpInit == StateUnbuilt

DumpNext ==
    \/ StateInitCall
    \/ LateFieldsCall
    \/ AssignCall
    \/ SetupDumpCall
    \/ DumpCall

(***************************************************************************)
(* gusto/transport_equation.py                                             *)
(*                                                                         *)
(* A form is the set of the terms the constructor added to L, each named   *)
(* by its integrand and measure.  A function space is given by whether it  *)
(* is continuous (is_cg), the state by the topological dimension of its    *)
(* mesh and by the geometry attributes it carries: the State of            *)
(* gusto/state.py defines neither perp nor on_sphere ("bare"); "plane" and *)
(* "sphere" are States that carry them.  Multiplying a term by the measure *)
(* None that surface_measures returns for a continuous space is a          *)
(* TypeError.                                                              *)
(***************************************************************************)
IbpValues == {"NEVER", "ONCE", "TWICE"}
Geometries == {"bare", "plane", "sphere"}

Built(terms) == [result |-> "ok", terms |-> terms]
Failed(error) == [result |-> error, terms |-> {}]

\* surface_measures(V) returns (None, None) for a continuous space
has_facet_measure(cg) == ~cg

\* the facet terms shared by advection_form and continuity_form
facet_terms(cg, ibp) ==
    IF has_facet_measure(cg) /\ ibp # "NEVER"
    THEN {"jump(test).(un+ q+ - un- q-)*dS"}
         \cup (IF ibp = "TWICE" THEN {"-test ubar.n q*dS"} ELSE {})
    ELSE {}

\* advection_form: un is assigned only where the facet terms are built, and
\* the outflow term reads it
advection_form(cg, ibp, outflow) ==
    LET volume == IF ibp = "ONCE"
                  THEN {"-div(outer(test,ubar)).q*dx"}
                  ELSE {"outer(test,ubar).grad(q)*dx"}
        un_bound == has_facet_measure(cg) /\ ibp # "NEVER"
    IN  IF ~IsNone(outflow)
        THEN IF un_bound
             THEN Built(volume \cup facet_terms(cg, ibp) \cup {"test un q*ds"})
             ELSE Failed("UnboundLocalError")
        ELSE Built(volume \cup facet_terms(cg, ibp))

linear_advection_form == Built({"qbar test div(ubar)*dx"})

continuity_form(cg, ibp) ==
    LET volume == IF ibp = "ONCE"
                  THEN {"-grad(test).outer(q,ubar)*dx"}
                  ELSE {"test div(outer(q,ubar))*dx"}
    IN  Built(volume \cup facet_terms(cg, ibp))

advection_vector_manifold_form(cg, ibp) ==
    IF ~has_facet_measure(cg) THEN Failed("TypeError")
    ELSE Built(advection_form(cg, ibp, None).terms
               \cup {"un+ test-.(n+ + n-) q+.n+*dS",
                     "un- test+.(n+ + n-) q-.n-*dS"})

\* vector_invariant_form with the dimension test left out
vector_invariant_form_unchecked(dim, geometry, cg, ibp) ==
    IF ~has_facet_measure(cg) THEN Failed("TypeError")
    ELSE Built({"q.curl(cross(ubar,test))*dx",
                "-both(Upwind q).both(cross(n,cross(ubar,test)))*dS",
                "-0.5 div(test) q.ubar*dx"})

\* vector_invariant_form: in three dimensions only ibp ONCE is implemented;
\* otherwise the form is written with state.perp and state.on_sphere
vector_invariant_form(dim, geometry, cg, ibp) ==
    IF dim = 3
    THEN IF ibp # "ONCE" THEN Failed("NotImplementedError")
         ELSE IF ~has_facet_measure(cg) THEN Failed("TypeError")
         ELSE Built({"q.curl(cross(ubar,test))*dx",
                     "-both(Upwind q).both(cross(n,cross(ubar,test)))*dS",
                     "-0.5 div(test) q.ubar*dx"})
    ELSE IF geometry = "bare" THEN Failed("AttributeError")
    ELSE IF ~has_facet_measure(cg) THEN Failed("TypeError")
    ELSE LET upwind == IF geometry = "sphere"
                       THEN "-jump(test.perp(ubar),n).Upwind cross(k,q)*dS"
                       ELSE "-jump(test.perp(ubar),n).Upwind perp(q)*dS"
         IN  IF ibp = "ONCE"
             THEN Built({"-gradperp(test.perp(ubar)).q*dx", upwind,
                         "-0.5 div(test) q.ubar*dx"})
             ELSE Built({"-test.div(perp(q)) perp(ubar)*dx", upwind,
                         "jump(test.perp(ubar) perp(q),n)*dS",
                         "-0.5 div(test) q.ubar*dx"})

kinetic_energy_form == Built({"0.5 div(test) q.ubar*dx"})

\* vector_invariant_form(...) - kinetic_energy_form(...)
advection_equation_circulation_form(dim, geometry, cg, ibp) ==
    LET vi == vector_invariant_form(dim, geometry, cg, ibp)
    IN  IF vi.result # "ok" THEN vi
        ELSE Built(vi.terms \cup {"-0.5 div(test) q.ubar*dx (kinetic energy)"})

TransportCall(fn, dim, geometry, cg, ibp, outflow, got) ==
    [fn |-> fn, dim |-> dim, geometry |-> geometry, cg |-> cg, ibp |-> ibp,
     outflow |-> outflow, result |-> got.result]

NoTransportCall ==
    TransportCall("none", 2, "bare", FALSE, "ONCE", None, Built({}))

NotApplied == [result |-> "none", terms |-> {}]

TransportInit ==
    /\ tform = None
    /\ tcall = NoTransportCall
    /\ tapply = NotApplied
    /\ ntrans = 0

TransportIdle == TransportInit

TransportEnabled == ntrans < MaxTransportCalls

\* what every constructor call does with the outcome: the caller holds the
\* returned form, which has not been used yet, or the exception has left it
\* with the form it had
Constructed(call, got) ==
    /\ tcall' = call
    /\ tform' = IF got.result = "ok" THEN Some(got.terms) ELSE tform
    /\ tapply' = IF got.result = "ok" THEN NotApplied ELSE tapply
    /\ ntrans' = ntrans + 1
    /\ UNCHANGED NotTransport

AdvectionForm ==
    /\ TransportEnabled
    /\ \E cg \in BOOLEAN, ibp \in IbpValues, outflow \in {None, Some(TRUE)} :
         LET got == advection_form(cg, ibp, outflow)
         IN  Constructed(TransportCall("advection_form", 2, "bare", cg, ibp,
                                       outflow, got), got)

LinearAdvectionForm ==
    /\ TransportEnabled
    /\ Constructed(TransportCall("linear_advection_form", 2, "bare", FALSE,
                                 "ONCE", None, linear_advection_form),
                   linear_advection_form)

ContinuityForm ==
    /\ TransportEnabled
    /\ \E cg \in BOOLEAN, ibp \in IbpValues :
         LET got == continuity_form(cg, ibp)
         IN  Constructed(TransportCall("continuity_form", 2, "bare", cg, ibp,
                                       None, got), got)

AdvectionVectorManifoldForm ==
    /\ TransportEnabled
    /\ \E cg \in BOOLEAN, ibp \in IbpValues :
         LET got == advection_vector_manifold_form(cg, ibp)
         IN  Constructed(TransportCall("advection_vector_manifold_form", 2,
                                       "bare", cg, ibp, None, got), got)

VectorInvariantForm ==
    /\ TransportEnabled
    /\ \E dim \in {2, 3}, geometry \in Geometries, cg \in BOOLEAN,
          ibp \in IbpValues :
         LET got == vector_invariant_form(dim, geometry, cg, ibp)
         IN  Constructed(TransportCall("vector_invariant_form", dim, geometry,
                                       cg, ibp, None, got), got)

KineticEnergyForm ==
    /\ TransportEnabled
    /\ Constructed(TransportCall("kinetic_energy_form", 2, "bare", FALSE,
                                 "ONCE", None, kinetic_energy_form),
                   kinetic_energy_form)

AdvectionEquationCirculationForm ==
    /\ TransportEnabled
    /\ \E dim \in {2, 3}, geometry \in Geometries, cg \in BOOLEAN,
          ibp \in IbpValues :
         LET got == advection_equation_circulation_form(dim, geometry, cg, ibp)
         IN  Constructed(TransportCall("advection_equation_circulation_form",
                                       dim, geometry, cg, ibp, None, got), got)

\* TransportScheme.apply: the scheme evaluates the form it was constructed
\* with; it has no check of its own on the combination
TransportApply ==
    /\ TransportEnabled
    /\ ~IsNone(tform)
    /\ tapply' = Built(Val(tform))
    /\ ntrans' = ntrans + 1
    /\ UNCHANGED <<tform, tcall>>
    /\ UNCHANGED NotTransport

TransportNext ==
    \/ AdvectionForm
    \/ LinearAdvectionForm
    \/ ContinuityForm
    \/ AdvectionVectorManifoldForm
    \/ VectorInvariantForm
    \/ KineticEnergyForm
    \/ AdvectionEquationCirculationForm
    \/ TransportApply

\* ======================================================================
\* The semi-implicit timestepper (specification section 4.3).  A timestep
\* passes through ADVECT_EXPLICIT, OUTER_ITERATE for k = 1..K, PHYSICS and
\* ADVANCE; each step of it is one blocking call (section 5), so the
\* timestepper's position is a stage, an iteration and a position inside
\* the iteration.  slog records the calls of the timestep in progress.
\* ======================================================================

Stages == {"IDLE", "ADVECT_EXPLICIT", "OUTER_ITERATE", "PHYSICS", "ADVANCE",
           "DONE", "FAILED"}

\* the fields a run carries: the advected fields of the moist test case
\* and the rain fields of the rain processes
StepperFields == {"u", "rho", "theta", "water_v", "water_c", "rain",
                  "rainfall_velocity"}

PhysicsProcesses == {"Condensation", "Coalescence", "Collection",
                     "Autoconversion", "Fallout"}

\* the physics lists explored: none (the default), the single Condensation
\* of the moist test case, and lists of two and three processes
PhysicsLists == {<< >>,
                 <<"Condensation">>,
                 <<"Fallout", "Condensation">>,
                 <<"Coalescence", "Collection", "Autoconversion">>}

\* the fields an apply() assigns or projects into
apply_writes_every_field(proc) == StepperFields

apply_writes(proc) ==
    CASE proc = "Condensation" -> {"theta", "water_v", "water_c"}
      [] proc = "Coalescence" -> {"water_c", "rain"}
      [] proc = "Collection" -> {"water_c", "rain"}
      [] proc = "Autoconversion" -> {"water_c", "rain"}
      [] proc = "Fallout" -> {"rainfall_velocity", "rain"}

\* one call of the timestep: what was called, in which outer iteration (or
\* at which position of the physics list), the buffer it read and the
\* buffer it wrote
StepEvent(ev, k, reads, writes) == <<ev, k, reads, writes>>

\* the four calls of outer iteration k, in order: b (forcing), c (linear
\* solve), d (update of xnp1, then the re-advection)
OuterIterationEvents(k) ==
    << StepEvent("forcing", k, "xstar", "xrhs"),
       StepEvent("solve", k, "xrhs", "dy"),
       StepEvent("update", k, "dy", "xnp1"),
       StepEvent("readvect", k, "xnp1", "xp") >>

\* the position inside an outer iteration that follows a position
next_substage_swapped(sub) ==
    CASE sub = "forcing" -> "update"
      [] sub = "update" -> "solve"
      [] sub = "solve" -> "readvect"
      [] OTHER -> "forcing"

next_substage(sub) ==
    CASE sub = "forcing" -> "solve"
      [] sub = "solve" -> "update"
      [] sub = "update" -> "readvect"
      [] OTHER -> "forcing"

\* the outer loop ends on the count alone
outer_iterations_done_on_convergence(k, K) == k >= 1

outer_iterations_done(k, K) == k >= K

\* the process applied at a position of the physics list
physics_process(list, i) == list[i]

\* the run ends when the time has reached tmax
run_finished(n, last) == n >= last

\* the time after a timestep
advance_time_stalled(t, step) == t

advance_time(t, step) == t + step

\* ---- the values of the buffers ----
\* A buffer holds an expression: the operation that produced its value and
\* the operands it read.  Expressions are kept once each in a table and a
\* buffer holds the position of its expression, so two buffers are equal
\* exactly when they were computed in the same way from the same values.
Known(tb, node) == \E i \in 1..Len(tb) : tb[i] = node
put(tb, node) ==
    IF Known(tb, node)
    THEN [table |-> tb, at |-> CHOOSE i \in 1..Len(tb) : tb[i] = node]
    ELSE [table |-> Append(tb, node), at |-> Len(tb) + 1]

\* a Function as constructed, and the initial condition given to xn
InitialTable == << <<"zero">>, <<"initial">> >>
ZeroFunction == put(InitialTable, <<"zero">>).at
InitialState == put(InitialTable, <<"initial">>).at

\* MixedState buffers as _allocate_state makes them, xn then initialised
BufferNames == {"xn", "xstar", "xp", "xnp1", "xrhs", "xb", "dy"}
InitialBuffers ==
    [b \in BufferNames |-> IF b = "xn" THEN InitialState ELSE ZeroFunction]

\* what the operators hold between calls: the advecting velocity of the
\* transport schemes; x0, scaling, mu_scaling and uF of the forcing; the
\* rate Function of each physics process
InitialHidden ==
    [ubar |-> ZeroFunction, x0 |-> ZeroFunction, scaling |-> 1,
     mu_scaling |-> 1, uF |-> ZeroFunction,
     rate |-> [p \in PhysicsProcesses |-> ZeroFunction]]

\* the velocity component of a mixed state
velocity_of(tb, x) == put(tb, <<"u", x>>)

\* TransportScheme: the advecting velocity is bound, then apply(source,
\* destination) transports source with the velocity held
TransportScheme_apply(tb, op, u, source) ==
    LET bound == [op EXCEPT !.ubar = u]
        r == put(tb, <<"transport", source, bound.ubar>>)
    IN  [table |-> r.table, op |-> bound, out |-> r.at]

\* the linearisation state the solve in apply() reads: x0, once x_nl has
\* been assigned to it
forcing_solve_reads_x0_left(held, x_nl) == held

forcing_solve_reads(held, x_nl) == x_nl

\* CompressibleForcing.apply(scaling, x_in, x_nl, x_out, mu_alpha): x0 and
\* scaling are assigned, mu_scaling only when mu_alpha is given; the solve
\* leaves uF, a function of the three; x_out is x_in with uF added to u
CompressibleForcing_apply(tb, op, scale, x_in, x_nl, mu_alpha) ==
    LET musc == IF IsNone(mu_alpha) THEN op.mu_scaling ELSE Val(mu_alpha)
        solved == put(tb, <<"uF", forcing_solve_reads(op.x0, x_nl), scale,
                        musc>>)
        r == put(solved.table, <<"plus_uF", x_in, solved.at>>)
    IN  [table |-> r.table,
         op |-> [op EXCEPT !.x0 = x_nl, !.scaling = scale,
                           !.mu_scaling = musc, !.uF = solved.at],
         out |-> r.at]

\* Physics.apply(): the rate Function of the process is computed from the
\* fields, then the fields are updated from the fields and the rate
Physics_apply(tb, op, proc, x) ==
    LET rate == put(tb, <<"rate", proc, x>>)
        r == put(rate.table, <<"physics", proc, x, rate.at>>)
    IN  [table |-> r.table,
         op |-> [op EXCEPT !.rate[proc] = rate.at],
         out |-> r.at]

NoPhysicsApplied == [proc |-> "None", before |-> [f \in StepperFields |-> 0]]

StartTimes == {0, 3}
Timesteps == {1, 2}

StepperUnstarted ==
    /\ stage = "IDLE"
    /\ kiter = 0
    /\ substage = "none"
    /\ pnext = 0
    /\ nsteps = 0
    /\ fver = [f \in StepperFields |-> 0]
    /\ slog = << >>
    /\ plast = NoPhysicsApplied
    /\ tnow = t0
    /\ table = InitialTable
    /\ bufs = InitialBuffers
    /\ hidden = InitialHidden
    /\ saved = InitialBuffers
    /\ first_xnp1 = None

StepperInit ==
    /\ maxk \in 1..MaxOuterIterations
    /\ physics_list \in PhysicsLists
    /\ tmax \in 0..MaxTimesteps
    /\ t0 \in StartTimes
    /\ deltat \in Timesteps
    /\ StepperUnstarted

StepperIdle ==
    /\ maxk = 1
    /\ physics_list = << >>
    /\ tmax = 0
    /\ t0 = 0
    /\ deltat = 1
    /\ StepperUnstarted

StepperConfig == <<maxk, physics_list, tmax, t0, deltat>>
Values == <<table, bufs, hidden>>
RunRecord == <<tnow, saved, first_xnp1>>

\* stepper.run(t, tmax): the run starts its first timestep, or has nothing
\* to do
Run ==
    /\ stage = "IDLE"
    /\ stage' = IF run_finished(nsteps, tmax) THEN "DONE" ELSE "ADVECT_EXPLICIT"
    /\ tnow' = t0
    /\ saved' = bufs
    /\ UNCHANGED <<StepperConfig, kiter, substage, pnext, nsteps, fver, slog,
                   plast, Values, first_xnp1>>
    /\ UNCHANGED NotStepper

\* stage 1: every advected field is transported from xn into xstar, with
\* the velocity of xn
AdvectExplicit ==
    /\ stage = "ADVECT_EXPLICIT"
    /\ \E un \in {velocity_of(table, bufs.xn)} :
       \E r \in {TransportScheme_apply(un.table, hidden, un.at, bufs.xn)} :
           /\ table' = r.table
           /\ hidden' = r.op
           /\ bufs' = [bufs EXCEPT !.xstar = r.out]
    /\ slog' = << StepEvent("advect", 0, "xn", "xstar") >>
    /\ stage' = "OUTER_ITERATE"
    /\ kiter' = 1
    /\ substage' = "forcing"
    /\ UNCHANGED <<StepperConfig, pnext, nsteps, fver, plast, RunRecord>>
    /\ UNCHANGED NotStepper

\* stage 2a and 2b: the linearisation state from the current and the
\* provisional velocity, then forcing.apply(dt, xstar, ..., xrhs)
ForcingApplyStep ==
    /\ stage = "OUTER_ITERATE"
    /\ substage = "forcing"
    /\ \E un \in {velocity_of(table, bufs.xn)} :
       \E up \in {velocity_of(un.table, bufs.xp)} :
       \E lin \in {put(up.table, <<"lin", un.at, up.at>>)} :
       \E r \in {CompressibleForcing_apply(lin.table, hidden, deltat,
                                           bufs.xstar, lin.at, None)} :
           /\ table' = r.table
           /\ hidden' = r.op
           /\ bufs' = [bufs EXCEPT !.xrhs = r.out]
    /\ slog' = Append(slog, StepEvent("forcing", kiter, "xstar", "xrhs"))
    /\ substage' = next_substage(substage)
    /\ UNCHANGED <<StepperConfig, stage, kiter, pnext, nsteps, fver, plast,
                   RunRecord>>
    /\ UNCHANGED NotStepper

\* stage 2c: linear_solver.solve() returns dy, or fails and ends the run
LinearSolve ==
    /\ stage = "OUTER_ITERATE"
    /\ substage = "solve"
    /\ \E returns \in BOOLEAN :
        IF returns
        THEN \E r \in {put(table, <<"solve", bufs.xrhs>>)} :
             /\ table' = r.table
             /\ bufs' = [bufs EXCEPT !.dy = r.at]
             /\ slog' = Append(slog, StepEvent("solve", kiter, "xrhs", "dy"))
             /\ substage' = next_substage(substage)
             /\ stage' = stage
        ELSE /\ stage' = "FAILED"
             /\ UNCHANGED <<slog, substage, table, bufs>>
    /\ UNCHANGED <<StepperConfig, kiter, pnext, nsteps, fver, plast, hidden,
                   RunRecord>>
    /\ UNCHANGED NotStepper

\* stage 2d, first half: xnp1 = xstar + dy
UpdateXnp1 ==
    /\ stage = "OUTER_ITERATE"
    /\ substage = "update"
    /\ \E r \in {put(table, <<"add", bufs.xstar, bufs.dy>>)} :
        /\ table' = r.table
        /\ bufs' = [bufs EXCEPT !.xnp1 = r.at]
    /\ slog' = Append(slog, StepEvent("update", kiter, "dy", "xnp1"))
    /\ substage' = next_substage(substage)
    /\ UNCHANGED <<StepperConfig, stage, kiter, pnext, nsteps, fver, plast,
                   hidden, RunRecord>>
    /\ UNCHANGED NotStepper

\* stage 2d, second half: the re-advection with the average of the current
\* and the updated velocity; the loop then goes round again or the
\* timestep moves on to PHYSICS
ReAdvect ==
    /\ stage = "OUTER_ITERATE"
    /\ substage = "readvect"
    /\ \E un \in {velocity_of(table, bufs.xn)} :
       \E unp1 \in {velocity_of(un.table, bufs.xnp1)} :
       \E avg \in {put(unp1.table, <<"average", un.at, unp1.at>>)} :
       \E r \in {TransportScheme_apply(avg.table, hidden, avg.at, bufs.xnp1)} :
           /\ table' = r.table
           /\ hidden' = r.op
           /\ bufs' = [bufs EXCEPT !.xp = r.out]
    /\ slog' = Append(slog, StepEvent("readvect", kiter, "xnp1", "xp"))
    /\ IF outer_iterations_done(kiter, maxk)
       THEN /\ stage' = "PHYSICS"
            /\ substage' = "none"
            /\ pnext' = 1
            /\ kiter' = kiter
       ELSE /\ stage' = stage
            /\ substage' = next_substage(substage)
            /\ kiter' = kiter + 1
            /\ pnext' = pnext
    /\ UNCHANGED <<StepperConfig, nsteps, fver, plast, RunRecord>>
    /\ UNCHANGED NotStepper

\* stage 3: the next process of the list is applied
PhysicsApplyStep ==
    /\ stage = "PHYSICS"
    /\ pnext <= Len(physics_list)
    /\ \E proc \in {physics_process(physics_list, pnext)} :
      \E r \in {Physics_apply(table, hidden, proc, bufs.xnp1)} :
        /\ plast' = [proc |-> proc, before |-> fver]
        /\ fver' = [f \in StepperFields |->
                        IF f \in apply_writes(proc) THEN fver[f] + 1
                        ELSE fver[f]]
        /\ slog' = Append(slog, StepEvent("physics", pnext, proc, proc))
        /\ table' = r.table
        /\ hidden' = r.op
        /\ bufs' = [bufs EXCEPT !.xnp1 = r.out]
    /\ pnext' = pnext + 1
    /\ UNCHANGED <<StepperConfig, stage, kiter, substage, nsteps, RunRecord>>
    /\ UNCHANGED NotStepper

\* stage 3 ends when the list is exhausted
PhysicsDone ==
    /\ stage = "PHYSICS"
    /\ pnext > Len(physics_list)
    /\ stage' = "ADVANCE"
    /\ UNCHANGED <<StepperConfig, kiter, substage, pnext, nsteps, fver, slog,
                   plast, Values, RunRecord>>
    /\ UNCHANGED NotStepper

\* stage 4: xn <- xnp1, the time advances by dt, state.dump(t) is called;
\* the run then starts the next timestep or ends
Advance ==
    /\ stage = "ADVANCE"
    /\ slog' = Append(slog, StepEvent("advance", 0, "xnp1", "xn"))
    /\ bufs' = [bufs EXCEPT !.xn = bufs.xnp1]
    /\ tnow' = advance_time(tnow, deltat)
    /\ dump_plain(tnow', FALSE)
    /\ nsteps' = nsteps + 1
    /\ stage' = IF run_finished(nsteps + 1, tmax) THEN "DONE"
                ELSE "ADVECT_EXPLICIT"
    /\ UNCHANGED <<StepperConfig, kiter, substage, pnext, fver, plast, table,
                   hidden, saved, first_xnp1>>
    /\ UNCHANGED <<sbuilt, allocated, output, rank, ndump>>
    /\ UNCHANGED <<fieldlist, fattr, flist, sattr, scall, nstate>>
    /\ UNCHANGED <<physVars, forcVars, transVars>>

\* the same run a second time on the same objects: the State is given the
\* buffers and the time it started with, the forcing, the transport
\* schemes and the physics processes are the ones the first run used
RunAgain ==
    /\ stage = "DONE"
    /\ nsteps > 0
    /\ IsNone(first_xnp1)
    /\ first_xnp1' = Some(bufs.xnp1)
    /\ bufs' = saved
    /\ tnow' = t0
    /\ nsteps' = 0
    /\ stage' = "ADVECT_EXPLICIT"
    /\ UNCHANGED <<StepperConfig, kiter, substage, pnext, fver, slog, plast,
                   table, hidden, saved>>
    /\ UNCHANGED NotStepper

StepperNext ==
    \/ Run
    \/ AdvectExplicit
    \/ ForcingApplyStep
    \/ LinearSolve
    \/ UpdateXnp1
    \/ ReAdvect
    \/ PhysicsApplyStep
    \/ PhysicsDone
    \/ Advance
    \/ RunAgain

Others == TransportIdle /\ StepperIdle

InitPhysics == PhysicsInit /\ ForcingIdle /\ RegistryIdle /\ DumpIdle /\ Others
InitForcing == PhysicsIdle /\ ForcingInit /\ RegistryIdle /\ DumpIdle /\ Others
InitRegistry == PhysicsIdle /\ ForcingIdle /\ RegistryInit /\ DumpIdle /\ Others
InitDump == PhysicsIdle /\ ForcingIdle /\ DumpInit /\ Others
InitTransport ==
    PhysicsIdle /\ ForcingIdle /\ RegistryIdle /\ DumpIdle /\ TransportInit
    /\ StepperIdle

SpecPhysics == InitPhysics /\ [][PhysicsNext]_vars
SpecForcing == InitForcing /\ [][ForcingNext]_vars
SpecRegistry == InitRegistry /\ [][RegistryNext]_vars
SpecDump == InitDump /\ [][DumpNext]_vars
SpecTransport == InitTransport /\ [][TransportNext]_vars

InitStepper ==
    PhysicsIdle /\ ForcingIdle /\ RegistryIdle /\ DumpSetUp /\ TransportIdle
    /\ StepperInit
SpecStepper == InitStepper /\ [][StepperNext]_vars
\* every call of the timestepper returns or fails: the run never stalls
\* between two calls
SpecStepperFair == SpecStepper /\ WF_vars(StepperNext)

\* the components together
Init == PhysicsInit /\ ForcingInit /\ DumpInit /\ TransportInit /\ StepperInit
Next ==
    \/ PhysicsNext
    \/ ForcingNext
    \/ RegistryNext
    \/ DumpNext
    \/ TransportNext
    \/ StepperNext
Spec == Init /\ [][Next]_vars

(***************************************************************************)
(* Claims about the physics processes.                                     *)
(***************************************************************************)
NonNeg(x) == RGe(x, RZero)
Ran(op) == pcall.op = op
FromNonNeg == NonNeg(pcall.water_v) /\ NonNeg(pcall.water_c) /\ NonNeg(pcall.rain)

\* C1: after Condensation.apply from water_v >= 0 and water_c >= 0, for every
\* raw condensation rate and every dt > 0, water_v >= 0 and water_c >= 0.
C1_CondensationNonNegative ==
    (Ran("Condensation") /\ NonNeg(pcall.water_v) /\ NonNeg(pcall.water_c))
        => (NonNeg(water_v) /\ NonNeg(water_c))

\* a Condensation.apply whose raw rate was clipped, in either direction
C1_Witness ==
    /\ Ran("Condensation")
    /\ NonNeg(pcall.water_v) /\ NonNeg(pcall.water_c)
    /\ cond_rate # pcall.raw
    /\ (water_v = RZero \/ water_c = RZero)

\* C2: Collection.apply clips the collection rate (to at most water_c/dt, to 0
\* when not positive) before updating, so from water_c >= 0 and rain >= 0 the
\* updated water_c and rain are >= 0.
C2_CollectionClipped ==
    (Ran("Collection") /\ FromNonNeg)
        => /\ collection_rate = Collection_limit_rate(pcall.raw, pcall.water_c, dt)
           /\ NonNeg(water_c) /\ NonNeg(rain)

\* C3: after Coalescence.apply and Autoconversion.apply from water_c >= 0 and
\* rain >= 0, water_c >= 0 and rain >= 0; the Coalescence rate is never
\* negative (rain does not decrease); a negative Autoconversion rate removes
\* at most all of rain.
C3_CoalescenceAutoconversionNonNegative ==
    /\ (Ran("Coalescence") /\ FromNonNeg)
          => /\ NonNeg(water_c) /\ NonNeg(rain)
             /\ NonNeg(coalescence_rate)
             /\ RGe(rain, pcall.rain)
    /\ (Ran("Autoconversion") /\ FromNonNeg)
          => /\ NonNeg(water_c) /\ NonNeg(rain)
             /\ RLe(RNeg(RMul(dt, autoconversion_rate)), pcall.rain)

\* an Autoconversion.apply whose negative raw rate was clamped against rain
C3_Witness ==
    /\ Ran("Autoconversion") /\ FromNonNeg
    /\ RLt(pcall.raw, RZero)
    /\ autoconversion_rate # pcall.raw
    /\ rain = RZero /\ RLt(RZero, pcall.rain)

\* the rate a process stored on its last apply
StoredRate ==
    CASE Ran("Condensation") -> cond_rate
      [] Ran("Coalescence") -> coalescence_rate
      [] Ran("Collection") -> collection_rate
      [] Ran("Autoconversion") -> autoconversion_rate
      [] OTHER -> RZero

\* C4: within one apply() the same stored rate is used for all field updates:
\* what leaves one reservoir enters its companion, so water_v + water_c is
\* unchanged by Condensation and water_c + rain by the other three.
C4_SameRateConserves ==
    /\ Ran("Condensation")
          => /\ water_v = RSub(pcall.water_v, RMul(dt, StoredRate))
             /\ water_c = RAdd(pcall.water_c, RMul(dt, StoredRate))
             /\ RAdd(water_v, water_c) = RAdd(pcall.water_v, pcall.water_c)
    /\ (Ran("Coalescence") \/ Ran("Collection") \/ Ran("Autoconversion"))
          => /\ water_c = RSub(pcall.water_c, RMul(dt, StoredRate))
             /\ rain = RAdd(pcall.rain, RMul(dt, StoredRate))
             /\ RAdd(water_c, rain) = RAdd(pcall.water_c, pcall.rain)

\* a Condensation.apply that moved water with a non-zero rate
C4_Witness ==
    /\ Ran("Condensation")
    /\ StoredRate # RZero
    /\ water_v # pcall.water_v

StatementsRun == [i \in 1..Len(pcall.reads) |-> pcall.reads[i].stmt]
ReadBy(stmt) ==
    pcall.reads[CHOOSE i \in 1..Len(pcall.reads) : pcall.reads[i].stmt = stmt]

\* C30: Condensation.apply runs the weak rate solve (when weak), then the
\* clipping of the rate, then the updates of theta, water_v and water_c, in
\* that order; the clipping reads the raw rate and the water values from
\* before the apply; each of the three updates reads the stored clipped
\* rate; the theta update reads water_v and water_c as they were before
\* the apply, and water_c becomes its value from before the apply plus
\* dt times the stored rate, whatever the water_v update has done.
C30_CondensationOrder ==
    Ran("Condensation") =>
        /\ StatementsRun =
              (IF weak THEN <<"solve">> ELSE << >>)
              \o <<"rate", "theta", "water_v", "water_c">>
        /\ ReadBy("rate").rate = pcall.raw
        /\ ReadBy("rate").water_v = pcall.water_v
        /\ ReadBy("rate").water_c = pcall.water_c
        /\ \A stmt \in {"theta", "water_v", "water_c"} :
              ReadBy(stmt).rate = cond_rate
        /\ ReadBy("theta").water_v = pcall.water_v
        /\ ReadBy("theta").water_c = pcall.water_c
        /\ ReadBy("water_c").water_c = pcall.water_c
        /\ water_c = RAdd(pcall.water_c, RMul(dt, cond_rate))

\* a weak Condensation.apply that condensed vapour: water_v had already
\* changed when water_c was updated
C30_Witness ==
    /\ Ran("Condensation") /\ weak
    /\ RLt(RZero, cond_rate)
    /\ Len(pcall.reads) = 5
    /\ ReadBy("water_c").water_v # pcall.water_v
    /\ ReadBy("water_c").water_v = water_v

(***************************************************************************)
(* Claims about the forcing operators.                                     *)
(***************************************************************************)
Returned == fcall.result = "ok"
Raised == fcall.result = "AttributeError"
InBefore == fcall.xs[fcall.x_in]
NlBefore == fcall.xs[fcall.x_nl]
OutBefore == fcall.xs[fcall.x_out]
OutAfter == xs[fcall.x_out]
CorrectionRequested ==
    fconf.variant = "Incompressible" /\ fcall.incompressible.kind = "True"

\* C5: after Forcing.apply returns, every non-velocity component of x_out
\* equals that of x_in whatever x_out held (the pressure excepted when the
\* incompressible correction is requested), and every other object, x_in and
\* x_nl included, is unchanged.
C5_ForcingFrame ==
    Returned =>
        /\ Len(OutAfter) = Len(InBefore)
        /\ \A i \in 2..Len(OutAfter) :
              (i = 2 /\ CorrectionRequested) \/ OutAfter[i] = InBefore[i]
        /\ \A o \in Objs \ {fcall.x_out} : xs[o] = fcall.xs[o]

\* an apply into an x_out that held other values than x_in, with x_in, x_nl
\* and x_out three objects
C5_Witness ==
    /\ Returned
    /\ fcall.x_out \notin {fcall.x_in, fcall.x_nl}
    /\ fcall.x_in # fcall.x_nl
    /\ \E i \in 2..Len(OutBefore) : OutBefore[i] # InBefore[i]
    /\ OutBefore[1] # RZero
    /\ uF # RZero

\* the forcing F with the sponge damping term as one of its terms
WholeForcing(conf, X0) ==
    IF conf.variant = "ShallowWater" THEN ShallowWater_solve(conf, X0)
    ELSE RSub(IF conf.variant = "Compressible"
              THEN CompressibleScaled(conf, X0)
              ELSE IncompressibleScaled(conf, X0),
              SpongeTerm(conf, Some(ROne), X0[1]))

UnspongedForcing(conf, X0) ==
    CASE conf.variant = "Compressible" -> CompressibleScaled(conf, X0)
      [] conf.variant = "Incompressible" -> IncompressibleScaled(conf, X0)
      [] OTHER -> ShallowWater_solve(conf, X0)

FreshResult ==
    LET built == IF fconf.variant # "ShallowWater" /\ ~IsNone(fconf.mu)
                 THEN Some(ROne) ELSE None
        musc == IF fcall.mu_alpha.kind = "value"
                THEN Some(fcall.mu_alpha.val) ELSE built
        force == IF fconf.variant = "ShallowWater"
                 THEN RMul(ShallowWater_solve(fconf, NlBefore), fcall.scale)
                 ELSE u_forcing_solve(fconf, fcall.scale, musc, NlBefore)
        out == [InBefore EXCEPT ![1] = RAdd(InBefore[1], force)]
    IN  IF CorrectionRequested
        THEN [out EXCEPT ![2] = divergence_solve(NlBefore)] ELSE out

\* C7: the operator's internal state never carries over: an apply returns in
\* x_out what the same call returns on an operator that made no call before,
\* whatever calls preceded it.
C7_NoCarryOver == Returned => OutAfter = FreshResult

\* C8: IncompressibleForcing.apply runs the divergence solve and overwrites
\* the pressure of x_out only when incompressible is passed and true; in every
\* other call the solver is not run and the pressure of x_out is that of x_in.
C8_DivergenceOnlyWhenRequested ==
    fconf.variant = "Incompressible" =>
        /\ (Returned /\ fcall.incompressible.kind = "True")
              => /\ ndivsolve = fcall.ndivsolve + 1
                 /\ divu = divergence_solve(NlBefore)
                 /\ OutAfter[2] = divu
        /\ (Returned /\ fcall.incompressible.kind # "True")
              => /\ ndivsolve = fcall.ndivsolve
                 /\ OutAfter[2] = InBefore[2]
        /\ Raised => ndivsolve = fcall.ndivsolve

\* a call with incompressible=True whose divergence solve replaced the
\* pressure x_in had
C8_Witness ==
    /\ fconf.variant = "Incompressible"
    /\ Returned
    /\ fcall.incompressible.kind = "True"
    /\ ndivsolve = 2
    /\ OutAfter[2] # InBefore[2]

(***************************************************************************)
(* Claims about the field and space registry.                              *)
(***************************************************************************)
Listed(i) == funcs[flist[i]]

FalloutCalled == scall.op = "Fallout"
FalloutMoments == scall.args.pairs[1][2]
RegistryAsBefore ==
    funcs = scall.funcs /\ fattr = scall.fattr /\ flist = scall.flist

\* C17: Fallout(state, moments) with moments other than 0 or 1 raises
\* NotImplementedError and leaves the field registry of the state as it was
\* before the call (no rainfall_velocity field has been added).
C17_FalloutNoPartialConstruction ==
    (FalloutCalled /\ FalloutMoments \notin {0, 1}) =>
        /\ scall.result = "NotImplementedError"
        /\ RegistryAsBefore

\* Fallout was constructed with moments 0 on a state that has rain
FalloutConstructed ==
    /\ FalloutCalled /\ FalloutMoments = 0 /\ scall.result = "ok"
    /\ "rainfall_velocity" \in DOMAIN fattr
    /\ "rainfall_velocity" \notin DOMAIN scall.fattr

ProfilesCalled == scall.op = "set_reference_profiles"
PairsGiven == scall.args.pairs
\* the value the last pair of the call that names a field gives for it
LastGiven(name) ==
    LET last == CHOOSE i \in 1..Len(PairsGiven) :
                    /\ PairsGiven[i][1] = name
                    /\ \A j \in (i + 1)..Len(PairsGiven) : PairsGiven[j][1] # name
    IN  PairsGiven[last][2]
FieldBefore(name) == scall.funcs[scall.fattr[name]]
FieldNow(name) == funcs[fattr[name]]

\* C25: set_reference_profiles fails exactly when a pair names a field that
\* is not registered.  When it returns, every named field has a field
\* name+'bar' holding the profile: one that was registered before the call
\* is the same field with only its value overwritten, a new one is in the
\* space of the named field with dump false and pickup true and is listed
\* once; the named field itself is as it was.
C25_ReferenceProfiles ==
    ProfilesCalled =>
        /\ scall.result # "ok" <=>
                \E i \in 1..Len(PairsGiven) :
                    PairsGiven[i][1] \notin DOMAIN scall.fattr
        /\ scall.result = "ok" =>
             \A i \in 1..Len(PairsGiven) :
                LET name == PairsGiven[i][1]
                    bar == name \o "bar"
                IN  /\ bar \in DOMAIN fattr
                    /\ FieldNow(name) = FieldBefore(name)
                    /\ IF bar \in DOMAIN scall.fattr
                       THEN /\ fattr[bar] = scall.fattr[bar]
                            /\ FieldNow(bar) =
                                 [FieldBefore(bar) EXCEPT !.val = LastGiven(name)]
                       ELSE /\ FieldNow(bar) =
                                 [name |-> bar, space |-> FieldBefore(name).space,
                                  dump |-> FALSE, pickup |-> TRUE,
                                  val |-> LastGiven(name)]
                            /\ Cardinality({k \in 1..Len(flist) :
                                                flist[k] = fattr[bar]}) = 1
        /\ scall.result = "ok" =>
             Len(flist) = Len(scall.flist)
                + Cardinality({PairsGiven[i][1] \o "bar" : i \in 1..Len(PairsGiven)}
                              \ DOMAIN scall.fattr)

\* the profile of rho was set twice: the second call found rhobar and
\* changed its value only
C25_Witness ==
    /\ ProfilesCalled /\ scall.result = "ok"
    /\ "rhobar" \in DOMAIN scall.fattr
    /\ ~FieldBefore("rhobar").dump /\ FieldBefore("rhobar").pickup
    /\ FieldNow("rhobar").val # FieldBefore("rhobar").val
    /\ Len(funcs) = Len(scall.funcs)

InitialiseCalled == scall.op = "initialise"
NamesAsBefore ==
    /\ DOMAIN fattr = DOMAIN scall.fattr
    /\ \A n \in DOMAIN fattr : fattr[n] = scall.fattr[n]
    /\ flist = scall.flist
    /\ Len(funcs) = Len(scall.funcs)
Unregistered(i) == PairsGiven[i][1] \notin DOMAIN scall.fattr
\* the pairs the loop of the call got through: those before the first pair
\* that names an unregistered field
Assigned == {i \in 1..Len(PairsGiven) : \A j \in 1..i : ~Unregistered(j)}

\* C28: initialise leaves the set of registered names as it was; after the
\* call every pair's registered field holds the value given for it; a pair
\* naming an unregistered field makes the call fail.
C28_InitialiseNeverCreates ==
    InitialiseCalled =>
        /\ NamesAsBefore
        /\ \A i \in 1..Len(PairsGiven) :
              ~Unregistered(i) =>
                  FieldNow(PairsGiven[i][1]).val = LastGiven(PairsGiven[i][1])
        /\ (\E i \in 1..Len(PairsGiven) : Unregistered(i)) <=> scall.result # "ok"

\* C28 amended: initialise leaves the set of registered names as it was and
\* fails exactly when a pair names an unregistered field; the pairs before
\* the first such pair have been assigned (the last value given for a name
\* among them stands), and every field not named by them is as it was: a
\* registered field named only after the failing pair keeps its old value.
C28_InitialiseAmended ==
    InitialiseCalled =>
        /\ NamesAsBefore
        /\ (\E i \in 1..Len(PairsGiven) : Unregistered(i)) <=> scall.result # "ok"
        /\ \A i \in Assigned :
              (\A j \in Assigned : j > i => PairsGiven[j][1] # PairsGiven[i][1])
                  => FieldNow(PairsGiven[i][1]).val = PairsGiven[i][2]
        /\ \A n \in DOMAIN fattr :
              (\A i \in Assigned : PairsGiven[i][1] # n)
                  => FieldNow(n) = FieldBefore(n)

\* initialise([('rho', 2), ('u', 2)]) on a state whose only field is u:
\* the call failed on rho and u was not assigned
C28_Witness ==
    /\ InitialiseCalled /\ scall.result = "AttributeError"
    /\ Unregistered(1) /\ ~Unregistered(2)
    /\ FieldNow(PairsGiven[2][1]).val # PairsGiven[2][2]

\* initialise assigned two registered fields
InitialiseAssigned ==
    /\ InitialiseCalled /\ scall.result = "ok" /\ Len(PairsGiven) = 2
    /\ FieldNow("rho").val = 2 /\ FieldNow("u").val = 2
    /\ FieldBefore("rho").val # 2

\* a call that created the reference fields of two names
ProfilesCreated ==
    /\ ProfilesCalled /\ scall.result = "ok"
    /\ Len(flist) = Len(scall.flist) + 2

(***************************************************************************)
(* Claims about State construction and dump I/O.                           *)
(***************************************************************************)
DumpReturned == dcall.op = "dump" /\ dcall.result = "ok"
PlainDump == DumpReturned /\ ~dcall.pickup
PickupDump == DumpReturned /\ dcall.pickup
OutputWritten ==
    /\ dumpfile = Some(Val(dcall.dumpfile) + 1)
    /\ \A k \in 1..Len(fieldlist) :
          Len(diagnostic_list(Val(diagnostic_data), fieldlist[k], "min"))
            = Len(diagnostic_list(Val(dcall.diagnostic_data), fieldlist[k],
                                  "min")) + 1
    /\ ~IsNone(chkpt) /\ Val(chkpt).time = dcall.t
    /\ chkptbk = chkpt
NothingWritten ==
    /\ dumpfile = dcall.dumpfile
    /\ diagnostic_data = dcall.diagnostic_data
    /\ diagnostics_json = dcall.diagnostics_json
    /\ chkpt = dcall.chkpt
    /\ chkptbk = dcall.chkptbk

Field(i) == funcs[flist[i]]
FieldAtWrite(i) == Val(lastwrite).funcs[flist[i]]
RoundTrip == PickupDump /\ ~IsNone(lastwrite)

\* C12: when dump(t) has written a checkpoint, the fields have then been
\* changed, and dump(pickup=True) is called, every field whose pickup flag is
\* set has the value it had at the writing dump and the call returns t.
C12_CheckpointRoundTrip ==
    RoundTrip =>
        /\ dcall.ret = Val(lastwrite).t
        /\ \A i \in 1..Len(flist) :
             Field(i).pickup => Field(i).val = FieldAtWrite(i).val

\* the same round trip for the fields that setup_dump listed in to_pickup
RoundTripOfListedFields ==
    RoundTrip =>
        /\ dcall.ret = Val(lastwrite).t
        /\ \A k \in 1..Len(Val(to_pickup)) :
             funcs[Val(to_pickup)[k]].val
                 = Val(lastwrite).funcs[Val(to_pickup)[k]].val

\* a listed field was changed after the write and the pickup has run
RoundTripReached ==
    /\ RoundTrip
    /\ \E k \in 1..Len(Val(to_pickup)) :
         dcall.funcs[Val(to_pickup)[k]].val
             # Val(lastwrite).funcs[Val(to_pickup)[k]].val

StoredIn(file, i) ==
    /\ Field(i).name \in DOMAIN file.data
    /\ file.data[Field(i).name] = Field(i).val

\* C13: every checkpoint written by dump() holds every field of the container
\* whose pickup flag is set at the moment of that dump, fields registered
\* after setup_dump included, and the time t passed to that dump.
C13_CheckpointComplete ==
    (PlainDump /\ dumpfile # dcall.dumpfile) =>
        /\ Val(chkpt).time = dcall.t
        /\ Val(chkptbk).time = dcall.t
        /\ \A i \in 1..Len(flist) :
             Field(i).pickup => StoredIn(Val(chkpt), i) /\ StoredIn(Val(chkptbk), i)

\* the third call's checkpoint holds a listed field with a value that an
\* assignment gave it
StoredValueReached ==
    /\ PlainDump /\ dumpfile # dcall.dumpfile
    /\ \E k \in 1..Len(Val(to_pickup)) : funcs[Val(to_pickup)[k]].val # 0

SetupDumpDone == dcall.op = "setup_dump"
WouldOverwrite ==
    /\ dcall.dumpdir_exists
    /\ ~dcall.pickup
    /\ rank = 0
    /\ ~Val(output).pytest

\* C15: when the results directory exists, pickup is false, the process is
\* rank 0 and the directory name does not contain "pytest", setup_dump raises
\* IOError and the dump counter, the output file and the diagnostic data are
\* as they were; with pickup=True it proceeds on an existing directory.
C15_SetupDumpKeepsExistingOutput ==
    SetupDumpDone =>
        /\ WouldOverwrite =>
             /\ dcall.result = "IOError"
             /\ dumpcount = dcall.dumpcount
             /\ dumpfile = dcall.dumpfile
             /\ diagnostic_data = dcall.diagnostic_data
             /\ to_dump = dcall.to_dump
             /\ to_pickup = dcall.to_pickup
        /\ (dcall.pickup /\ dcall.dumpdir_exists) =>
             /\ dcall.result = "ok"
             /\ dumpcount = Some(0)
             /\ dumpfile = Some(0)
             /\ diagnostic_data = Some(<< >>)

\* a second setup_dump was refused after output had been written
C15_Witness ==
    /\ SetupDumpDone /\ WouldOverwrite
    /\ dcall.result = "IOError"
    /\ ~IsNone(dumpfile) /\ Val(dumpfile) > 0

\* setup_dump(pickup=True) went ahead on an existing directory
SetupDumpProceeded ==
    /\ SetupDumpDone /\ dcall.pickup /\ dcall.dumpdir_exists
    /\ rank = 0 /\ ~Val(output).pytest
    /\ dcall.result = "ok"

\* the call before this one was the first after setup_dump, a pickup that
\* returned
AfterFirstPickup ==
    /\ PlainDump
    /\ dcall.npick = 1 /\ dcall.nplain = 0 /\ dcall.dumpcount = Some(1)

\* C26: a dump(pickup=True) that returns has written no field output, no
\* diagnostics and no checkpoint, and has advanced the dump counter by one;
\* the dump(pickup=False) that follows a pickup made first after setup_dump
\* writes when dumpfreq is 1 and writes nothing otherwise.
C26_PickupOccupiesSlot ==
    /\ PickupDump =>
          /\ NothingWritten
          /\ dumpcount = Some(Val(dcall.dumpcount) + 1)
    /\ AfterFirstPickup =>
          IF Val(output).dumpfreq = 1 THEN OutputWritten ELSE NothingWritten

\* with dumpfreq 2 the dump after the pickup wrote nothing
C26_Witness ==
    /\ AfterFirstPickup
    /\ Val(output).dumpfreq = 2
    /\ NothingWritten /\ dumpcount = Some(2)
    /\ ~IsNone(chkpt)

\* with dumpfreq 1 the dump after the pickup wrote
WroteAfterPickup ==
    AfterFirstPickup /\ Val(output).dumpfreq = 1 /\ dumpfile = Some(1)

\* the velocity is the vector field of every field list
IsVectorField(name) == name = "u"
WritesSinceSetup == Val(dumpfile)

\* C27: once setup_dump has been called, for every name of the field list
\* the lists min, max, rms and l2 of diagnostic_data have as many entries as
\* dumps have written output, total has that many for a scalar field and
\* does not exist for a vector field; and a dump that wrote has left the two
\* checkpoint files equal, holding the time of the call.
C27_DiagnosticLengths ==
    ~IsNone(diagnostic_data) =>
        /\ \A k \in 1..Len(fieldlist) :
              LET name == fieldlist[k]
                  data == Val(diagnostic_data)
              IN  /\ \A fn \in {"min", "max", "rms", "l2"} :
                        Len(diagnostic_list(data, name, fn)) = WritesSinceSetup
                  /\ IF IsVectorField(name)
                     THEN name \in DOMAIN data => "total" \notin DOMAIN data[name]
                     ELSE Len(diagnostic_list(data, name, "total"))
                            = WritesSinceSetup
        /\ (PlainDump /\ dumpfile # dcall.dumpfile) =>
              /\ ~IsNone(chkpt) /\ ~IsNone(chkptbk)
              /\ chkptbk = chkpt
              /\ Val(chkpt).time = dcall.t

\* two dumps have written and a third call wrote nothing: every list of
\* the scalar rho has two entries, u has no total
C27_Witness ==
    /\ PlainDump /\ NothingWritten
    /\ ~IsNone(diagnostic_data) /\ WritesSinceSetup = 2
    /\ Len(diagnostic_list(Val(diagnostic_data), "rho", "total")) = 2
    /\ "total" \notin DOMAIN Val(diagnostic_data)["u"]

(***************************************************************************)
(* Claims about the transport forms.                                       *)
(***************************************************************************)
VectorInvariantCall ==
    tcall.fn \in {"vector_invariant_form", "advection_equation_circulation_form"}
Unsupported == VectorInvariantCall /\ tcall.dim = 3 /\ tcall.ibp # "ONCE"

\* C16: vector_invariant_form (and the circulation form built on it) on a
\* mesh of topological dimension 3 with ibp other than ONCE raises
\* NotImplementedError in the constructor; a constructor that returns has
\* been given a supported combination, and the use of a constructed form
\* rejects nothing.
C16_RejectedAtConstruction ==
    /\ Unsupported => tcall.result = "NotImplementedError"
    /\ (tcall.fn # "none" /\ tcall.result = "ok") => ~Unsupported
    /\ tapply.result # "NotImplementedError"
    /\ tapply.result = "ok" => ~IsNone(tform) /\ tapply.terms = Val(tform)

\* the circulation form was refused in three dimensions with ibp TWICE, and
\* the form constructed before it is the one in use
C16_Witness ==
    /\ tcall.fn = "advection_equation_circulation_form"
    /\ tcall.dim = 3 /\ tcall.ibp = "TWICE" /\ ~tcall.cg
    /\ tcall.result = "NotImplementedError"
    /\ ~IsNone(tform)

OutflowRequested == tcall.fn = "advection_form" /\ ~IsNone(tcall.outflow)

\* C29: advection_form called with the outflow option, for a continuous or
\* a discontinuous space and any ibp value, returns a form that contains
\* the outflow boundary term or raises NotImplementedError; it never ends
\* with the error of an unbound variable.
C29_OutflowAlwaysBuilds ==
    OutflowRequested =>
        /\ tcall.result \in {"ok", "NotImplementedError"}
        /\ tcall.result = "ok" => "test un q*ds" \in Val(tform)

\* on a discontinuous space with ibp ONCE the outflow term was built
OutflowBuilt ==
    /\ OutflowRequested /\ ~tcall.cg /\ tcall.ibp = "ONCE"
    /\ tcall.result = "ok"
    /\ "test un q*ds" \in Val(tform)

(***************************************************************************)
(* Claims about the timestepper.                                           *)
(***************************************************************************)
\* the calls of one whole timestep with K outer iterations and n physics
\* processes, in the order of section 4.3
ExpectedTimestep(K, n) ==
    << StepEvent("advect", 0, "xn", "xstar") >>
    \o [i \in 1..(4 * K) |->
            OuterIterationEvents(((i - 1) \div 4) + 1)[((i - 1) % 4) + 1]]
    \o [i \in 1..n |-> <<"physics", i>>]
    \o << StepEvent("advance", 0, "xnp1", "xn") >>

\* a call of the log, with a physics application reduced to its position
CallOf(e) == IF e[1] = "physics" THEN <<"physics", e[2]>> ELSE e

TimestepComplete == nsteps > 0 /\ stage \in {"ADVECT_EXPLICIT", "DONE"}
OuterIterationsRun == Cardinality({j \in 1..Len(slog) : slog[j][1] = "readvect"})

\* C18: the calls of a timestep are, at every moment, an initial part of
\* advect; (forcing from xstar into xrhs, solve from xrhs into dy, update
\* of xnp1, re-advection) for k = 1..K; the physics applications; advance:
\* nothing is skipped, repeated or reordered, and a timestep that has
\* reached ADVANCE, or has completed, has made all the calls before it.
C18_StageOrder ==
    LET expected == ExpectedTimestep(maxk, Len(physics_list)) IN
    /\ Len(slog) <= Len(expected)
    /\ \A j \in 1..Len(slog) : CallOf(slog[j]) = expected[j]
    /\ stage = "ADVANCE" => Len(slog) = Len(expected) - 1
    /\ TimestepComplete => Len(slog) = Len(expected)
    /\ stage = "PHYSICS" => Len(slog) = 4 * maxk + pnext
    /\ stage = "OUTER_ITERATE" => Len(slog) < 1 + 4 * maxk

\* a second timestep with three outer iterations and two physics processes
\* has completed
C18_Witness ==
    /\ nsteps = 2 /\ maxk = 3 /\ Len(physics_list) = 2
    /\ stage = "DONE"
    /\ Len(slog) = 16

\* C19: a timestep that reaches ADVANCE has run exactly K outer iterations,
\* whatever K and whatever the solves produced, no iteration is numbered
\* beyond K, and every run ends: it reaches tmax unless a solve failed.
C19_FixedOuterIterations ==
    /\ []((stage = "ADVANCE" \/ TimestepComplete) => OuterIterationsRun = maxk)
    /\ [](kiter <= maxk)
    /\ <>(stage = "DONE" \/ stage = "FAILED")

\* a run of two timesteps with three outer iterations each reached tmax
C19_Witness ==
    /\ stage = "DONE" /\ nsteps = tmax /\ tmax = 2
    /\ maxk = 3 /\ OuterIterationsRun = 3

\* the physics applications of the timestep in progress, in order
PhysicsApplied == SelectSeq(slog, LAMBDA e : e[1] = "physics")
\* the field set of each process
OwnFieldSet(proc) ==
    CASE proc = "Condensation" -> {"theta", "water_v", "water_c"}
      [] proc \in {"Coalescence", "Collection", "Autoconversion"} ->
            {"water_c", "rain"}
      [] proc = "Fallout" -> {"rain", "rainfall_velocity"}
      [] OTHER -> {}

\* C20: when a timestep reaches ADVANCE the processes applied in it are
\* the configured list, each once and in list order; every application
\* comes after the re-advection of outer iteration K and before advance;
\* and an application leaves every field outside the process's own field
\* set as it was.
C20_PhysicsOncePerTimestep ==
    /\ (stage = "ADVANCE" \/ TimestepComplete) =>
            [i \in 1..Len(PhysicsApplied) |-> PhysicsApplied[i][3]]
                = physics_list
    /\ \A j \in 1..Len(slog) : slog[j][1] = "physics" =>
            /\ \E i \in 1..(j - 1) :
                    slog[i][1] = "readvect" /\ slog[i][2] = maxk
            /\ \A i \in 1..(j - 1) : slog[i][1] # "advance"
            /\ \A i \in (j + 1)..Len(slog) :
                    slog[i][1] \in {"physics", "advance"}
    /\ plast.proc # "None" =>
            \A f \in StepperFields \ OwnFieldSet(plast.proc) :
                fver[f] = plast.before[f]

\* the three rain processes have been applied in the second timestep, the
\* last of them changing water_c and rain
C20_Witness ==
    /\ stage = "ADVANCE" /\ nsteps = 1
    /\ Len(physics_list) = 3 /\ Len(PhysicsApplied) = 3
    /\ plast.proc = "Autoconversion"
    /\ fver["rain"] = plast.before["rain"] + 1

\* the timesteps completed on the State since it was set up for output
TimestepsCompleted == nsteps + (IF IsNone(first_xnp1) THEN 0 ELSE tmax)

\* C21: ADVANCE leaves xn equal to xnp1, adds exactly dt to the time and
\* calls dump once, with the new time; so after n completed timesteps of a
\* run started at t0 the time is t0 + n*dt, and dump has been called once
\* for every timestep completed.
C21_AdvanceStepsTime ==
    /\ [][stage = "ADVANCE" =>
            /\ bufs'.xn = bufs.xnp1 /\ bufs'.xnp1 = bufs.xnp1
            /\ tnow' = tnow + deltat
            /\ nplain' = nplain + 1
            /\ dcall'.op = "dump" /\ dcall'.result = "ok"
            /\ dcall'.t = tnow']_vars
    /\ [](TimestepComplete =>
            bufs.xn = bufs.xnp1 /\ dcall.op = "dump" /\ dcall.t = tnow)
    /\ [](tnow = t0 + nsteps * deltat /\ nplain = TimestepsCompleted)

\* a run of two timesteps of dt = 2 started at t0 = 3 has ended at time 7,
\* with two dump calls, the last one given the time 7
C21_Witness ==
    /\ stage = "DONE" /\ IsNone(first_xnp1)
    /\ t0 = 3 /\ deltat = 2 /\ nsteps = 2 /\ tnow = 7
    /\ nplain = 2 /\ dcall.t = 7
    /\ bufs.xn = bufs.xnp1 /\ bufs.xn # InitialState

====
